---- MODULE Spec2Model ----
(***************************************************************************)
(* The download pipeline of the three bot variants of the repository:      *)
(*   runbot          src/bot/management/commands/runbot.py  download_video *)
(*   youtube_bot     src/bot/youtube_bot.py              download_callback *)
(*   youtube_dl_bot  src/youtube_dl_bot.py  handle_callback/download_video *)
(*                                                       /download_audio   *)
(* One behaviour is one download request handled by one variant.  Every    *)
(* call to a collaborator (yt-dlp, the chat transport, the database, the   *)
(* analytics API, the file system) either returns or raises; the control   *)
(* flow around it (try/except/finally, early returns, recursion) is the    *)
(* code's.                                                                 *)
(*   Spec        one request, handled to its end                           *)
(*   SweepSpec   the same, with the clock and the hourly housekeeping      *)
(*               sweep of bot/tasks.py                                     *)
(*   CancelSpec  the same, with the requesting session closing at any      *)
(*               point of the run                                          *)
(*   ConcSpec    two download_callback threads of youtube_bot sharing the  *)
(*               working directory of the process                          *)
(*   ProfileSpec a runbot request, with the profile of its user edited     *)
(*               by somebody else meanwhile                                *)
(*   RouteSpec   a message to runbot, routed to its url handler, and the   *)
(*               download its button starts                                *)
(*   PurgeSpec   youtube_bot requests, the clock, the sweep and the        *)
(*               monthly purge of bot/tasks.py                             *)
(*   ChatSpec    the links, buttons and settings of the users of one chat  *)
(*               of youtube_dl_bot                                         *)
(*   StatsSpec   a runbot request over a table of stored Download rows,    *)
(*               and the /stats command                                    *)
(***************************************************************************)
EXTENDS Integers, Sequences, FiniteSets, TLC

VARIABLES
    variant,          \* which bot handles the request
    pc,               \* position in the handler
    download_type,    \* "VIDEO" | "AUDIO"
    quality,          \* youtube_dl_bot: quality of the running download_video
    info,             \* what extract_info(download=False) answers
    video_title,      \* "unset" until the metadata is resolved
    sizes,            \* size of the artifact yt-dlp produces, per tier
    download,         \* runbot: the in-memory Download object
    rows,             \* runbot: the stored Download rows
    userTouches,      \* runbot: number of stored writes of User.last_active
    rowWrites,        \* runbot: number of stored writes of a Download row
    userRow,          \* runbot: the stored profile fields of the user
                      \* (username, first_name, last_name, language_code),
                      \* as the number of the edit that wrote them
    user,             \* runbot: the profile fields of the loaded User object
    activity_id,      \* youtube_bot: start_response.get('activity_id')
    activities,       \* youtube_bot: the activities the analytics API stored
    locals,           \* youtube_bot: download_success, file_size, error_message
    files,            \* sizes of the files in the request's workspace
    events,           \* terminal results handed to the chat transport
    sentSizes,        \* sizes of the files send_video/send_audio delivered
    tried,            \* tiers fetched, in the order of the fetches
    fetched,          \* how each of these fetches ended
    err,              \* message of the exception in flight
    now,              \* the clock, in whole hours
    cwd,              \* the working directory of the bot's process
    dirs,             \* the directories: whether each exists, and its files
    req,              \* concurrent download_callback threads: position,
                      \* original_dir, and the file each picked
    session,          \* "live", or "gone" once the chat was closed
    swept_at,         \* the hour of the last housekeeping sweep
    url,              \* runbot: the url argument of download_video
    common_options,   \* runbot: the yt-dlp options built for it
    message_text,     \* runbot: update.message.text of the message sent
    hpc,              \* runbot: position in the message handlers
    hurl,             \* runbot: the local `url` of the running url handler
    replies,          \* runbot: the texts reply_text has delivered
    keyboard,         \* runbot: the callback data of the buttons delivered
    user_data,        \* runbot: context.user_data["pornhub_url"]
    resolutions,      \* runbot: extract_info calls of handle_tiktok_url
    effective_user,   \* runbot: the profile fields of update.effective_user
    purge,            \* the hour of the last purge of old activities, and
                      \* the activities the purges have deleted
    user_data_dl,     \* youtube_dl_bot: context.user_data["current_download"]
                      \* of each user
    user_preferences, \* youtube_dl_bot: the module's user_preferences dict
    messages,         \* youtube_dl_bot: the bot's messages with buttons
    started,          \* youtube_dl_bot: the downloads handle_callback began
    download_dirs,    \* youtube_dl_bot: the downloads/<chat_id> directories
    last_setting,     \* youtube_dl_bot: the settings button of each user
                      \* that was handled last
    callback_user,    \* youtube_dl_bot: the user of the callback query
                      \* handled last
    stats             \* runbot: the statistics stats_command showed last

vars == <<variant, pc, download_type, quality, info, video_title, sizes,
          download, rows, userTouches, rowWrites, userRow, user,
          activity_id, activities,
          locals,
          files, events, sentSizes, tried, fetched, err, now,
          cwd, dirs, req, session, swept_at, url, common_options,
          message_text, hpc, hurl, replies, keyboard, user_data,
          resolutions, effective_user, purge,
          user_data_dl, user_preferences, messages, started, download_dirs,
          last_setting, callback_user, stats>>

----------------------------------------------------------------------------
(* Constants of the program *)

MiB == 1024 * 1024

\* runbot.py:30  MAX_FILE_SIZE = 2000 * 1024 * 1024
MAX_FILE_SIZE == 2000 * 1024 * 1024

\* youtube_dl_bot.py:438, 555, 571  50 * 1024 * 1024
DL_SIZE_LIMIT == 50 * 1024 * 1024

\* runbot.py:363  if duration > 6000:  # 10 minutes
RB_DURATION_LIMIT == 6000

\* runbot.py:369  download.error_message = "Video too long"
RbRejectMessage == "Video too long"

\* youtube_dl_bot.py:59, 438  the 50MB limit of the transport, in bytes
TransportSizeLimit == 52428800

\* runbot.py:362-365  "10 minutes max", in seconds
DurationCeiling == 10 * 60

----------------------------------------------------------------------------
(* Inputs *)

Variants == {"runbot", "youtube_bot", "youtube_dl_bot"}
DownloadTypes == {"VIDEO", "AUDIO"}

\* youtube_dl_bot.py:372  quality = query.data.split("_")[-1]
Qualities == {"high", "medium", "low"}

\* Artifact sizes: around the 50 MiB limit, around the 2000 MiB limit, and
\* the sizes of the documented scenario (80, 40, 20 MiB).
Sizes == {20 * MiB, 40 * MiB, 50 * MiB, 50 * MiB + 1, 80 * MiB,
          2000 * MiB, 2000 * MiB + 1}

\* Durations in seconds; hasDuration = FALSE is info_dict["duration"] = None.
Durations == {300, 900, 6000, 6001}
Infos == [hasDuration : {TRUE}, duration : Durations]
           \cup {[hasDuration |-> FALSE, duration |-> 0]}

\* The tiers a request of this variant and kind can fetch.
TiersOf(v, t) ==
    IF v = "youtube_dl_bot"
    THEN IF t = "VIDEO" THEN Qualities ELSE {"192", "96"}
    ELSE {"best"}

Outcomes == {"ok", "raise"}

NoDownload == [exists |-> FALSE]
NoErr == "none"

\* No sweep has run yet.
NoSweep == 0 - 1

\* No User row of the telegram_id is stored.
NoUser == 0 - 1

\* A text is the sequence of its pieces ("https://", the labels of a host
\* name, ".", "/", the segments of a path, " ", words); the text is their
\* concatenation.  `needle in text` of the code is the test that the pieces
\* of the needle occur in the text, in a row: no needle of the code lies
\* across the pieces chosen here or inside one of them.
Sub(needle, text) ==
    \E i \in 0..(Len(text) - Len(needle)) :
      \A j \in 1..Len(needle) : text[i + j] = needle[j]

\* The links the message router accepts, one for each alternative of its
\* patterns.
UrlYoutube ==
    <<"https://", "www", ".", "youtube", ".", "com", "/", "watch?v=", "id">>
UrlInstaReel ==
    <<"https://", "www", ".", "instagram", ".", "com", "/", "reel", "/", "id">>
UrlInstaPost == <<"https://", "instagram", ".", "com", "/", "p", "/", "id">>
UrlInstaStory ==
    <<"https://", "instagram", ".", "com", "/", "stories", "/", "name", "/",
      "id">>
UrlInstagrAm == <<"https://", "instagr", ".", "am", "/", "p", "/", "id">>
UrlTiktok ==
    <<"https://", "www", ".", "tiktok", ".", "com", "/", "@name", "/",
      "video", "/", "id">>
UrlTiktokT == <<"https://", "tiktok", ".", "com", "/", "t", "/", "id">>
UrlTiktokVm == <<"https://", "vm", ".", "tiktok", ".", "com", "/", "id">>
UrlTiktokVt == <<"https://", "vt", ".", "tiktok", ".", "com", "/", "id">>
UrlPornhub ==
    <<"https://", "pornhub", ".", "com", "/", "view", "_",
      "video.php?viewkey=", "id">>

Urls == {UrlYoutube, UrlInstaReel, UrlInstaPost, UrlInstaStory, UrlInstagrAm,
         UrlTiktok, UrlTiktokT, UrlTiktokVm, UrlTiktokVt, UrlPornhub}

NoUrl == <<>>

\* youtube_dl_bot: the users of a chat, and a user_data without a
\* "current_download".
DlUsers == {1, 2}
NoSession == <<>>
NoOptions == <<>>

\* youtube_bot.py:30  telebot.TeleBot(BOT_TOKEN) runs its handlers on worker
\* threads: the download_callback calls in flight at once.
Requests == {1, 2}

\* The directory the process starts in; the directory of
\* tempfile.TemporaryDirectory() of request r is named r.
StartDir == 0
Dirs == {StartDir} \cup Requests

\* No /stats was answered yet.
NoStats == [user |-> 0]

\* The user whose requests the model follows, and the users who have rows.
Requester == 1
StatsUsers == {1, 2}

\* The state before a request, whatever the request is, but for the stored
\* Download rows.
InitState ==
    /\ variant \in Variants
    /\ download_type \in DownloadTypes
    /\ quality \in (IF variant = "youtube_dl_bot" /\ download_type = "VIDEO"
                    THEN Qualities ELSE {"none"})
    /\ info \in (IF variant = "runbot" THEN Infos
                 ELSE {[hasDuration |-> TRUE, duration |-> 300]})
    /\ video_title = (IF variant = "youtube_dl_bot" THEN "title"
                      ELSE "unset")
    /\ sizes \in [TiersOf(variant, download_type) -> Sizes]
    /\ download = NoDownload
    /\ userTouches = 0
    /\ rowWrites = 0
    /\ user = 0
    /\ activity_id = 0
    /\ activities = <<>>
    /\ locals = [download_success |-> FALSE, file_size |-> 0,
                 error_message |-> "None"]
    /\ files = <<>>
    /\ events = <<>>
    /\ sentSizes = <<>>
    /\ tried = <<>>
    /\ fetched = <<>>
    /\ err = NoErr
    /\ now = 0
    /\ cwd = StartDir
    /\ dirs = [d \in Dirs |-> [exists |-> (d = StartDir), files |-> {}]]
    /\ req = [r \in Requests |->
                [pc |-> "start", original_dir |-> StartDir,
                 picked |-> 0, listed |-> StartDir]]
    /\ session = "live"
    /\ swept_at = NoSweep
    /\ common_options = NoOptions
    /\ purge = [at |-> NoSweep, deleted |-> {}]
    /\ user_data_dl = [u \in DlUsers |-> NoSession]
    /\ user_preferences = [u \in {} |-> NoSession]
    /\ messages = <<>>
    /\ started = <<>>
    /\ download_dirs = {}
    /\ last_setting = [u \in DlUsers |-> "none"]
    /\ callback_user = 0
    /\ hurl = NoUrl
    /\ replies = <<>>
    /\ keyboard = <<>>
    /\ user_data = NoUrl
    /\ resolutions = 0
    /\ stats = NoStats

\* The state before the first request.
InitData == InitState /\ rows = <<>>

\* A request that starts at the download step.
Init ==
    /\ InitData
    /\ pc = "start"
    /\ url \in (IF variant = "runbot" THEN Urls ELSE {NoUrl})
    /\ message_text = NoUrl
    /\ hpc = "none"
    /\ userRow = 0
    /\ effective_user = 0


----------------------------------------------------------------------------
(* Helpers shared by the actions *)

\* A call of the chat transport returns or raises; once the requesting
\* session is gone, every call raises.
TransportOutcomes == IF session = "gone" THEN {"raise"} ELSE Outcomes

\* A terminal result handed to the chat transport: the call is issued, and
\* the user sees the result when the transport call returns (o = "ok").
Emit(e, o) == events' = Append(events, [result |-> e, shown |-> (o = "ok")])

\* bot/models.py:60-64  Download.save: the user's last_active is written
\* first, then the row; no transaction spans the two writes.  self.user.save()
\* has no update_fields: it writes every field of the loaded User object.
\*   "ok"         both writes stored
\*   "user_fails" self.user.save() raises: nothing stored
\*   "row_fails"  super().save() raises after the user was stored
SaveOutcomes == {"ok", "user_fails", "row_fails"}

StoreRow(obj) ==
    IF obj.id > Len(rows) THEN Append(rows, obj)
    ELSE [rows EXCEPT ![obj.id] = obj]

Save(obj, o) ==
    /\ userTouches' = (IF o = "user_fails" THEN userTouches
                       ELSE userTouches + 1)
    /\ rowWrites' = (IF o = "ok" THEN rowWrites + 1 ELSE rowWrites)
    /\ userRow' = (IF o = "user_fails" THEN userRow ELSE user)
    /\ user' = user
    /\ rows' = (IF o = "ok" THEN StoreRow(obj) ELSE rows)

\* The names of the variables each variant leaves alone; no step of a
\* handler advances the clock.
concVars == <<cwd, dirs, req>>
routeVars == <<message_text, hpc, hurl, replies, keyboard, user_data,
               resolutions>>
chatVars == <<user_data_dl, user_preferences, messages, started,
              download_dirs, last_setting, callback_user>>
inputVars == <<variant, download_type, info, sizes, now, concVars, session,
               swept_at, url, common_options, routeVars, effective_user,
               purge, chatVars, stats>>
reqVars == <<inputVars, video_title, quality>>
ybVars == <<activity_id, activities, locals>>
rbVars == <<download, rows, userTouches, rowWrites, userRow, user>>
fetchVars == <<tried, fetched>>

----------------------------------------------------------------------------
(* runbot.py download_video *)

\* runbot.py:279  user = get_or_create_user(update)
\* runbot.py:46-58  User.objects.get_or_create(telegram_id=...,
\* defaults={...}): the row of the telegram_id as it is stored, or, when
\* there is none, a new row with the fields of update.effective_user
get_or_create(row, defaults) == IF row = NoUser THEN defaults ELSE row

RbGetUser ==
    /\ variant = "runbot" /\ pc = "start"
    /\ \E o \in Outcomes :
         /\ pc' = (IF o = "ok" THEN "rb_options" ELSE "raised")
         /\ userRow' = (IF o = "ok"
                        THEN get_or_create(userRow, effective_user)
                        ELSE userRow)
         /\ user' = (IF o = "ok" THEN userRow' ELSE user)
    /\ UNCHANGED <<reqVars, download, rows, userTouches, rowWrites,
                   ybVars, files, events, sentSizes, fetchVars, err>>

\* dict.update: the keys of u are set in d.
Update(d, u) ==
    [k \in DOMAIN d \cup DOMAIN u |-> IF k \in DOMAIN u THEN u[k] ELSE d[k]]

\* runbot.py:281-295  common_options = {...}
BaseOptions ==
    [quiet |-> "True", no_warnings |-> "True",
     cookiefile |-> "/app/youtube.com_cookies.txt",
     referer |-> "https://www.tiktok.com/",
     geo_bypass |-> "True", geo_bypass_country |-> "US"]
    @@ ("user-agent" :> "Chrome")

\* runbot.py:296-304  if "instagram.com/stories" in url
StoryOptions ==
    [cookiefile |-> "/app/instagram.com_cookies.txt",
     username |-> "INSTAGRAM_USERNAME", password |-> "INSTAGRAM_PASSWORD"]

\* runbot.py:305-313  if "instagram.com" in url
InstagramOptions ==
    [referer |-> "https://www.instagram.com/"] @@ ("user-agent" :> "Chrome")

\* runbot.py:316  is_tiktok
IsTiktok(u) ==
    \/ Sub(<<"tiktok", ".", "com">>, u)
    \/ Sub(<<"tiktok", ".", "vn">>, u)
    \/ Sub(<<"vm", ".", "tiktok", ".", "com">>, u)

\* runbot.py:318-337  if is_tiktok
TiktokOptions ==
    [referer |-> "https://www.tiktok.com/",
     headers |-> "Cookie", force_generic_extractor |-> "False",
     allow_unplayable_formats |-> "True", no_check_certificate |-> "True",
     extractor_args |-> "tiktok"]
    @@ ("user-agent" :> "iPhone")

\* runbot.py:281-337  the option set built for a url
OptionsFor(u) ==
    LET a == BaseOptions
        b == IF Sub(<<"instagram", ".", "com", "/", "stories">>, u)
             THEN Update(a, StoryOptions) ELSE a
        c == IF Sub(<<"instagram", ".", "com">>, u)
             THEN Update(b, InstagramOptions) ELSE b
    IN  IF IsTiktok(u) THEN Update(c, TiktokOptions) ELSE c

RbBuildOptions ==
    /\ pc = "rb_options"
    /\ common_options' = OptionsFor(url)
    /\ pc' = "rb_extract_info"
    /\ UNCHANGED <<variant, download_type, info, sizes, now, concVars,
                   session, swept_at, url, video_title, quality, rbVars,
                   ybVars, files, events, sentSizes, fetchVars, err,
                   routeVars, effective_user, purge, chatVars, stats>>

\* runbot.py:340-345  extract_info(url, download=False)
RbExtractInfo ==
    /\ pc = "rb_extract_info"
    /\ \E o \in Outcomes :
         IF o = "ok"
         THEN pc' = "rb_create" /\ err' = err /\ video_title' = "title"
         ELSE pc' = "rb_info_failed" /\ err' = "info error"
              /\ video_title' = video_title
    /\ UNCHANGED <<inputVars, quality, rbVars, ybVars, files, events,
                   sentSizes, fetchVars>>

\* RbInfoFailed with the edit_message_text of lines 346-350 left out.
RbInfoFailed_Silent ==
    /\ pc = "rb_info_failed"
    /\ pc' = "returned"
    /\ UNCHANGED <<reqVars, rbVars, ybVars, files, events, sentSizes,
                   fetchVars, err>>

\* runbot.py:345-351  except: edit_message_text("Error getting video
\* information"); return
RbInfoFailed ==
    /\ pc = "rb_info_failed"
    /\ \E o \in TransportOutcomes :
         /\ Emit("failed", o)
         /\ pc' = (IF o = "ok" THEN "returned" ELSE "raised")
    /\ UNCHANGED <<reqVars, rbVars, ybVars, files, sentSizes,
                   fetchVars, err>>

\* runbot.py:354-360  Download.objects.create(..., success=False)
NewDownload ==
    [exists |-> TRUE, id |-> Len(rows) + 1, success |-> FALSE,
     file_size |-> 0, completed_at |-> "null", error_message |-> "null",
     started_at |-> now, download_type |-> download_type,
     owner |-> Requester]

RbCreate ==
    /\ pc = "rb_create"
    /\ \E o \in SaveOutcomes :
         /\ Save(NewDownload, o)
         /\ IF o = "ok"
            THEN download' = NewDownload /\ pc' = "rb_duration_check"
            ELSE download' = download /\ pc' = "raised"
    /\ UNCHANGED <<reqVars, ybVars, files, events, sentSizes,
                   fetchVars, err>>

\* runbot.py:363  if duration > 6000 (None > 6000 raises TypeError)
TooLong(d) == d > RB_DURATION_LIMIT

RbDurationCheck ==
    /\ pc = "rb_duration_check"
    /\ pc' = (IF ~info.hasDuration THEN "raised"
              ELSE IF TooLong(info.duration) THEN "rb_reject_edit"
              ELSE "rb_fetch")
    /\ UNCHANGED <<reqVars, rbVars, ybVars, files, events,
                   sentSizes, fetchVars, err>>

\* runbot.py:364-368  edit_message_text("Video is too long ...")
RbRejectEdit ==
    /\ pc = "rb_reject_edit"
    /\ \E o \in TransportOutcomes :
         /\ Emit("rejected", o)
         /\ pc' = (IF o = "ok" THEN "rb_reject_save" ELSE "raised")
    /\ UNCHANGED <<reqVars, rbVars, ybVars, files, sentSizes,
                   fetchVars, err>>

\* RbRejectSave with the save() of line 370 left out.
RbRejectSave_Unsaved ==
    /\ pc = "rb_reject_save"
    /\ download' = [download EXCEPT !.error_message = RbRejectMessage]
    /\ pc' = "returned"
    /\ UNCHANGED <<reqVars, rows, userTouches, rowWrites, userRow, user,
                   ybVars, files, events,
                   sentSizes, fetchVars, err>>

\* runbot.py:369-371  download.error_message = "Video too long";
\* download.save(); return
RbRejectSave ==
    /\ pc = "rb_reject_save"
    /\ download' = [download EXCEPT !.error_message = RbRejectMessage]
    /\ \E o \in SaveOutcomes :
         /\ Save(download', o)
         /\ pc' = (IF o = "ok" THEN "returned" ELSE "raised")
    /\ UNCHANGED <<reqVars, ybVars, files, events, sentSizes,
                   fetchVars, err>>

\* runbot.py:410-418  tempfile.TemporaryDirectory(); os.chdir(tmp_dir);
\* ydl.download([url]).  The fetch leaves one file, leaves none, or raises.
FetchOutcomes == {"file", "nofile", "raise"}

RbFetch ==
    /\ pc = "rb_fetch"
    /\ tried' = Append(tried, "best")
    /\ \E o \in FetchOutcomes :
         /\ fetched' = Append(fetched, o)
         /\ files' = (IF o = "file" THEN <<sizes["best"]>> ELSE <<>>)
         /\ IF o = "raise"
            THEN pc' = "rb_except" /\ err' = "fetch error"
            ELSE pc' = "rb_locate" /\ err' = err
    /\ UNCHANGED <<reqVars, rbVars, ybVars, events, sentSizes>>

\* runbot.py:428-432  if file_size > MAX_FILE_SIZE: raise
RbFits(file_size) == ~(file_size > MAX_FILE_SIZE)

\* runbot.py:420-432  files = os.listdir(); files[0]; getsize; size check
RbLocate ==
    /\ pc = "rb_locate"
    /\ IF files = <<>>
       THEN pc' = "rb_except" /\ err' = "No files were downloaded"
       ELSE IF ~RbFits(files[1])
       THEN pc' = "rb_except" /\ err' = "File size exceeds Telegram's limit"
       ELSE pc' = "rb_edit_sending" /\ err' = err
    /\ UNCHANGED <<reqVars, rbVars, ybVars, files, events,
                   sentSizes, fetchVars>>

\* runbot.py:434-439  edit_message_text("Sending your video...")
RbEditSending ==
    /\ pc = "rb_edit_sending"
    /\ \E o \in TransportOutcomes :
         IF o = "ok"
         THEN pc' = "rb_send" /\ err' = err
         ELSE pc' = "rb_except" /\ err' = "transport error"
    /\ UNCHANGED <<reqVars, rbVars, ybVars, files, events,
                   sentSizes, fetchVars>>

\* runbot.py:441-456  send_video / send_audio: the file reaches the user
\* when the call returns.
RbSend ==
    /\ pc = "rb_send"
    /\ \E o \in TransportOutcomes :
         IF o = "ok"
         THEN /\ sentSizes' = Append(sentSizes, files[1])
              /\ Emit("delivered", "ok")
              /\ pc' = "rb_edit_complete" /\ err' = err
         ELSE /\ UNCHANGED <<sentSizes, events>>
              /\ pc' = "rb_except" /\ err' = "transport error"
    /\ UNCHANGED <<reqVars, rbVars, ybVars, files, fetchVars>>

\* runbot.py:458-463  edit_message_text("Download complete!")
RbEditComplete ==
    /\ pc = "rb_edit_complete"
    /\ \E o \in TransportOutcomes :
         IF o = "ok"
         THEN pc' = "rb_save_success" /\ err' = err
         ELSE pc' = "rb_except" /\ err' = "transport error"
    /\ UNCHANGED <<reqVars, rbVars, ybVars, files, events,
                   sentSizes, fetchVars>>

\* RbSaveSuccess with the save() moved before a statement of the try block
\* that can still raise.
RbSaveSuccess_Early ==
    /\ pc = "rb_save_success"
    /\ download' = [download EXCEPT !.success = TRUE, !.file_size = files[1],
                                    !.completed_at = "set"]
    /\ \E o \in SaveOutcomes :
         /\ Save(download', o)
         /\ IF o = "ok"
            THEN \E o2 \in TransportOutcomes :
                   IF o2 = "ok" THEN pc' = "rb_finally" /\ err' = err
                   ELSE pc' = "rb_except" /\ err' = "transport error"
            ELSE pc' = "rb_except" /\ err' = "database error"
    /\ UNCHANGED <<reqVars, ybVars, files, events, sentSizes,
                   fetchVars>>

\* runbot.py:465-469  success = True; file_size; completed_at; save()
RbSaveSuccess ==
    /\ pc = "rb_save_success"
    /\ download' = [download EXCEPT !.success = TRUE, !.file_size = files[1],
                                    !.completed_at = "set"]
    /\ \E o \in SaveOutcomes :
         /\ Save(download', o)
         /\ IF o = "ok"
            THEN pc' = "rb_finally" /\ err' = err
            ELSE pc' = "rb_except" /\ err' = "database error"
    /\ UNCHANGED <<reqVars, ybVars, files, events, sentSizes,
                   fetchVars>>

\* runbot.py:471-479  except Exception as e: edit_message_text("Download
\* failed: ...").  A raise here leaves the handler through finally.
RbExceptEdit ==
    /\ pc = "rb_except"
    /\ \E o \in TransportOutcomes :
         /\ Emit("failed", o)
         /\ pc' = (IF o = "ok" THEN "rb_except_save" ELSE "rb_finally_raise")
    /\ UNCHANGED <<reqVars, rbVars, ybVars, files, sentSizes,
                   fetchVars, err>>

\* runbot.py:481-483  download.error_message = error_message; save()
RbExceptSave ==
    /\ pc = "rb_except_save"
    /\ download' = [download EXCEPT !.error_message = err]
    /\ \E o \in SaveOutcomes :
         /\ Save(download', o)
         /\ pc' = (IF o = "ok" THEN "rb_finally" ELSE "rb_finally_raise")
    /\ UNCHANGED <<reqVars, ybVars, files, events, sentSizes,
                   fetchVars, err>>

\* runbot.py:485-487  finally: os.chdir(original_dir); then the
\* TemporaryDirectory of line 410 is removed.
RbFinally ==
    /\ pc \in {"rb_finally", "rb_finally_raise"}
    /\ files' = <<>>
    /\ pc' = (IF pc = "rb_finally" THEN "returned" ELSE "raised")
    /\ UNCHANGED <<reqVars, rbVars, ybVars, events, sentSizes,
                   fetchVars, err>>

RbNext ==
    \/ RbGetUser \/ RbBuildOptions \/ RbExtractInfo \/ RbInfoFailed \/ RbCreate
    \/ RbDurationCheck \/ RbRejectEdit \/ RbRejectSave \/ RbFetch
    \/ RbLocate \/ RbEditSending \/ RbSend \/ RbEditComplete
    \/ RbSaveSuccess \/ RbExceptEdit \/ RbExceptSave \/ RbFinally

----------------------------------------------------------------------------
(* youtube_bot.py download_callback *)

\* youtube_bot.py:93-105  parse call.data; answer_callback_query;
\* edit_message_text("Processing your request")
YbAnswer ==
    /\ variant = "youtube_bot" /\ pc = "start"
    /\ \E o \in TransportOutcomes :
         IF o = "ok"
         THEN pc' = "yb_extract_info" /\ err' = err
         ELSE pc' = "yb_outer_except" /\ err' = "transport error"
    /\ UNCHANGED <<reqVars, rbVars, ybVars, files, events,
                   sentSizes, fetchVars>>

\* youtube_bot.py:107-110  extract_info(url, download=False)
YbExtractInfo ==
    /\ pc = "yb_extract_info"
    /\ \E o \in Outcomes :
         IF o = "ok"
         THEN pc' = "yb_start_api" /\ err' = err /\ video_title' = "title"
         ELSE pc' = "yb_outer_except" /\ err' = "info error"
              /\ video_title' = video_title
    /\ UNCHANGED <<inputVars, quality, rbVars, ybVars, files, events,
                   sentSizes, fetchVars>>

\* youtube_bot.py:33-52  api_request: a RequestException is caught and an
\* error value without 'activity_id' is returned.
\* youtube_bot.py:112-123  start-download/; activity_id = .get('activity_id')
\* (0 stands for None: `if activity_id:` treats both alike).  The activity
\* is a DownloadActivity whose success is still null (completed = FALSE).
NewActivity ==
    [completed |-> FALSE, success |-> FALSE, file_size |-> 0,
     error_message |-> "None", started_at |-> now]

\* YbStartApi with an api_request that lets the RequestException through.
YbStartApi_Raising ==
    /\ pc = "yb_start_api"
    /\ \E o \in Outcomes :
         IF o = "ok"
         THEN /\ activities' = Append(activities, NewActivity)
              /\ activity_id' = Len(activities) + 1
              /\ pc' = "yb_fetch" /\ err' = err
         ELSE /\ activities' = activities
              /\ activity_id' = activity_id
              /\ pc' = "yb_outer_except" /\ err' = "analytics error"
    /\ UNCHANGED <<reqVars, rbVars, locals, files, events,
                   sentSizes, fetchVars>>

YbStartApi ==
    /\ pc = "yb_start_api"
    /\ \E o \in Outcomes :
         IF o = "ok"
         THEN /\ activities' = Append(activities, NewActivity)
              /\ activity_id' = Len(activities) + 1
         ELSE /\ activities' = activities
              /\ activity_id' = 0
    /\ pc' = "yb_fetch"
    /\ UNCHANGED <<reqVars, rbVars, locals, files, events,
                   sentSizes, fetchVars, err>>

\* youtube_bot.py:142-157  locals; TemporaryDirectory; chdir; ydl.download
YbFetch ==
    /\ pc = "yb_fetch"
    /\ tried' = Append(tried, "best")
    /\ locals' = [download_success |-> FALSE, file_size |-> 0,
                  error_message |-> "None"]
    /\ \E o \in FetchOutcomes :
         /\ fetched' = Append(fetched, o)
         /\ files' = (IF o = "file" THEN <<sizes["best"]>> ELSE <<>>)
         /\ IF o = "raise"
            THEN pc' = "yb_inner_except" /\ err' = "fetch error"
            ELSE pc' = "yb_locate" /\ err' = err
    /\ UNCHANGED <<reqVars, rbVars, activity_id, activities,
                   events, sentSizes>>

\* youtube_bot.py:159-166  listdir; file_size; download_success = True
\* (no size check before the send)
YbLocate ==
    /\ pc = "yb_locate"
    /\ IF files = <<>>
       THEN /\ pc' = "yb_inner_except" /\ err' = "No files were downloaded"
            /\ locals' = locals
       ELSE /\ pc' = "yb_edit_sending" /\ err' = err
            /\ locals' = [locals EXCEPT !.file_size = files[1],
                                        !.download_success = TRUE]
    /\ UNCHANGED <<reqVars, rbVars, activity_id, activities,
                   files, events, sentSizes, fetchVars>>

\* youtube_bot.py:168-173  edit_message_text("Sending your video...")
YbEditSending ==
    /\ pc = "yb_edit_sending"
    /\ \E o \in TransportOutcomes :
         IF o = "ok"
         THEN pc' = "yb_send" /\ err' = err
         ELSE pc' = "yb_inner_except" /\ err' = "transport error"
    /\ UNCHANGED <<reqVars, rbVars, ybVars, files, events,
                   sentSizes, fetchVars>>

\* youtube_bot.py:175-189  send_video / send_audio
YbSend ==
    /\ pc = "yb_send"
    /\ \E o \in TransportOutcomes :
         IF o = "ok"
         THEN /\ sentSizes' = Append(sentSizes, files[1])
              /\ Emit("delivered", "ok")
              /\ pc' = "yb_edit_complete" /\ err' = err
         ELSE /\ UNCHANGED <<sentSizes, events>>
              /\ pc' = "yb_inner_except" /\ err' = "transport error"
    /\ UNCHANGED <<reqVars, rbVars, ybVars, files, fetchVars>>

\* youtube_bot.py:191-196  edit_message_text("Download complete!")
YbEditComplete ==
    /\ pc = "yb_edit_complete"
    /\ \E o \in TransportOutcomes :
         IF o = "ok"
         THEN pc' = "yb_finally" /\ err' = err
         ELSE pc' = "yb_inner_except" /\ err' = "transport error"
    /\ UNCHANGED <<reqVars, rbVars, ybVars, files, events,
                   sentSizes, fetchVars>>

\* youtube_bot.py:198-208  except: error_message = str(e);
\* download_success = False; edit_message_text("Download failed: ...")
YbInnerExcept ==
    /\ pc = "yb_inner_except"
    /\ locals' = [locals EXCEPT !.error_message = err,
                                !.download_success = FALSE]
    /\ \E o \in TransportOutcomes :
         /\ Emit("failed", o)
         /\ pc' = (IF o = "ok" THEN "yb_finally" ELSE "yb_finally_raise")
    /\ UNCHANGED <<reqVars, rbVars, activity_id, activities,
                   files, sentSizes, fetchVars, err>>

\* youtube_bot.py:210-212  finally: chdir back; the TemporaryDirectory of
\* line 149 is removed; an exception goes on to the outer handler.
YbFinally ==
    /\ pc \in {"yb_finally", "yb_finally_raise"}
    /\ files' = <<>>
    /\ pc' = (IF pc = "yb_finally" THEN "yb_complete_api"
              ELSE "yb_outer_except")
    /\ UNCHANGED <<reqVars, rbVars, ybVars, events, sentSizes,
                   fetchVars, err>>

\* youtube_bot.py:214-222  if activity_id: complete-download/ with
\* success, file_size, error_message
CompleteData ==
    [completed |-> TRUE, success |-> locals.download_success,
     file_size |-> locals.file_size, error_message |-> locals.error_message]

\* The complete-download/ endpoint of the analytics service: it finalizes
\* the activity with the posted data, and refuses an activity that is
\* already finalized.
complete_download(a, data) ==
    IF a.completed THEN a
    ELSE [a EXCEPT !.completed = data.completed, !.success = data.success,
                   !.file_size = data.file_size,
                   !.error_message = data.error_message]

YbCompleteApi ==
    /\ pc = "yb_complete_api"
    /\ IF activity_id # 0
       THEN \E o \in Outcomes :
              activities' = (IF o = "ok"
                             THEN [activities EXCEPT ![activity_id] =
                                     complete_download(@, CompleteData)]
                             ELSE activities)
       ELSE activities' = activities
    /\ pc' = "returned"
    /\ UNCHANGED <<reqVars, rbVars, activity_id, locals, files,
                   events, sentSizes, fetchVars, err>>

\* youtube_bot.py:224-233  except Exception: edit_message_text("An error
\* occurred"), whose own failure is swallowed
YbOuterExcept ==
    /\ pc = "yb_outer_except"
    /\ \E o \in TransportOutcomes : Emit("failed", o)
    /\ pc' = "returned"
    /\ UNCHANGED <<reqVars, rbVars, ybVars, files, sentSizes,
                   fetchVars, err>>

YbNext ==
    \/ YbAnswer \/ YbExtractInfo \/ YbStartApi \/ YbFetch \/ YbLocate
    \/ YbEditSending \/ YbSend \/ YbEditComplete \/ YbInnerExcept
    \/ YbFinally \/ YbCompleteApi \/ YbOuterExcept

----------------------------------------------------------------------------
(* youtube_dl_bot.py handle_callback, download_video, download_audio *)

dlFrame == <<inputVars, video_title, rbVars, ybVars>>

\* youtube_dl_bot.py:285-288  query.answer(), outside any try
DlAnswer ==
    /\ variant = "youtube_dl_bot" /\ pc = "start"
    /\ \E o \in TransportOutcomes :
         pc' = (IF o = "ok" THEN "dl_processing" ELSE "raised")
    /\ UNCHANGED <<dlFrame, quality, files, events, sentSizes, fetchVars, err>>

\* youtube_dl_bot.py:357-375  edit_message_text("Processing your
\* request"); os.makedirs(download_dir); dispatch on query.data
DlProcessing ==
    /\ pc = "dl_processing"
    /\ \E o \in TransportOutcomes :
         pc' = (IF o = "raise" THEN "raised"
                ELSE IF download_type = "AUDIO" THEN "da_edit_downloading"
                ELSE "dv_edit_downloading")
    /\ UNCHANGED <<dlFrame, quality, files, events, sentSizes, fetchVars, err>>

\* youtube_dl_bot.py:376-378  except Exception: edit_message_text(
\* "Download failed: ..."), itself unguarded
DlExcept ==
    /\ pc = "dl_except"
    /\ \E o \in TransportOutcomes :
         /\ Emit("failed", o)
         /\ pc' = (IF o = "ok" THEN "returned" ELSE "raised")
    /\ UNCHANGED <<dlFrame, quality, files, sentSizes, fetchVars, err>>

\* A chat-transport call inside the try of handle_callback: it returns and
\* the handler goes on at `next`, or it raises into the except of line 376.
DlCall(next) ==
    \E o \in TransportOutcomes :
      IF o = "ok"
      THEN pc' = next /\ err' = err
      ELSE pc' = "dl_except" /\ err' = "transport error"

\* The same for a call that reports the terminal result `e`.
DlReport(e, next) ==
    \E o \in TransportOutcomes :
      /\ Emit(e, o)
      /\ IF o = "ok"
         THEN pc' = next /\ err' = err
         ELSE pc' = "dl_except" /\ err' = "transport error"

\* youtube_dl_bot.py:392-405  format by quality; edit_message_text(
\* "Downloading")
DvEditDownloading ==
    /\ pc = "dv_edit_downloading"
    /\ DlCall("dv_fetch")
    /\ UNCHANGED <<dlFrame, quality, files, events, sentSizes, fetchVars>>

\* DvFetch with a fetch error retried at the lowest tier, as an oversize
\* artifact is.
DvFetch_RetryOnError ==
    /\ pc = "dv_fetch"
    /\ tried' = Append(tried, quality)
    /\ \E o \in FetchOutcomes :
         /\ fetched' = Append(fetched, o)
         /\ files' = (IF o = "file" THEN <<sizes[quality]>> ELSE files)
         /\ IF o = "raise"
            THEN IF quality # "low"
                 THEN pc' = "dv_retry" /\ err' = err
                 ELSE pc' = "dl_except" /\ err' = "fetch error"
            ELSE pc' = "dv_edit_uploading" /\ err' = err
    /\ UNCHANGED <<dlFrame, quality, events, sentSizes>>

\* youtube_dl_bot.py:407-432  extract_info(url, download=True) at the
\* format of `quality`
DvFetch ==
    /\ pc = "dv_fetch"
    /\ tried' = Append(tried, quality)
    /\ \E o \in FetchOutcomes :
         /\ fetched' = Append(fetched, o)
         /\ files' = (IF o = "file" THEN <<sizes[quality]>> ELSE files)
         /\ IF o = "raise"
            THEN pc' = "dl_except" /\ err' = "fetch error"
            ELSE pc' = "dv_edit_uploading" /\ err' = err
    /\ UNCHANGED <<dlFrame, quality, events, sentSizes>>

\* youtube_dl_bot.py:434  edit_message_text("Download complete! Uploading")
DvEditUploading ==
    /\ pc = "dv_edit_uploading"
    /\ DlCall("dv_size")
    /\ UNCHANGED <<dlFrame, quality, files, events, sentSizes, fetchVars>>

\* youtube_dl_bot.py:438, 555, 571  file_size > 50 * 1024 * 1024
Oversize(file_size) == file_size > DL_SIZE_LIMIT

\* youtube_dl_bot.py:436-438  os.path.getsize (raises when the file is
\* missing); the size check
DvSize ==
    /\ pc = "dv_size"
    /\ IF files = <<>>
       THEN pc' = "dl_except" /\ err' = "No such file"
       ELSE IF Oversize(files[1])
       THEN pc' = "dv_edit_oversize" /\ err' = err
       ELSE pc' = "dv_send" /\ err' = err
    /\ UNCHANGED <<dlFrame, quality, files, events, sentSizes, fetchVars>>

\* youtube_dl_bot.py:439-445  edit_message_text("larger than 50MB ...
\* Trying with a lower quality"); if quality != "low"
DvEditOversize ==
    /\ pc = "dv_edit_oversize"
    /\ DlCall(IF quality # "low" THEN "dv_retry" ELSE "dv_edit_lowest")
    /\ UNCHANGED <<dlFrame, quality, files, events, sentSizes, fetchVars>>

\* RetryQuality with the retry at the quality that was oversize.
RetryQuality_Same(q) == q

\* youtube_dl_bot.py:447-449  the quality of the recursive call
RetryQuality(q) == "low"

\* youtube_dl_bot.py:445-450  os.remove(video_filename); the recursive
\* download_video(..., "low"); return
DvRetry ==
    /\ pc = "dv_retry"
    /\ \E o \in Outcomes :
         IF o = "ok"
         THEN /\ files' = <<>>
              /\ quality' = RetryQuality(quality)
              /\ pc' = "dv_edit_downloading" /\ err' = err
         ELSE /\ UNCHANGED <<files, quality>>
              /\ pc' = "dl_except" /\ err' = "remove failed"
    /\ UNCHANGED <<dlFrame, events, sentSizes, fetchVars>>

\* youtube_dl_bot.py:451-456  edit_message_text("Even the lowest video
\* quality exceeds Telegram's size limit")
DvEditLowest ==
    /\ pc = "dv_edit_lowest"
    /\ DlCall("dv_offer_audio")
    /\ UNCHANGED <<dlFrame, quality, files, events, sentSizes, fetchVars>>

\* DvOfferAudio with the audio fetched by the run itself, at the first
\* audio tier, instead of being left to the button.
DvOfferAudio_AutoAudio ==
    /\ pc = "dv_offer_audio"
    /\ DlReport("failed", "dv_remove_oversize")
    /\ tried' = Append(tried, "192")
    /\ fetched' = Append(fetched, "file")
    /\ UNCHANGED <<dlFrame, quality, files, sentSizes>>

\* youtube_dl_bot.py:458-472  edit_message_text("Video too large for
\* Telegram (50MB limit)") with the "Download Audio Instead" button
DvOfferAudio ==
    /\ pc = "dv_offer_audio"
    /\ DlReport("failed", "dv_remove_oversize")
    /\ UNCHANGED <<dlFrame, quality, files, sentSizes, fetchVars>>

\* youtube_dl_bot.py:474-475  os.remove(video_filename); return
DvRemoveOversize ==
    /\ pc = "dv_remove_oversize"
    /\ \E o \in Outcomes :
         IF o = "ok"
         THEN files' = <<>> /\ pc' = "returned" /\ err' = err
         ELSE files' = files /\ pc' = "dl_except" /\ err' = "remove failed"
    /\ UNCHANGED <<dlFrame, quality, events, sentSizes, fetchVars>>

\* youtube_dl_bot.py:477-485  send_video
DvSend ==
    /\ pc = "dv_send"
    /\ \E o \in TransportOutcomes :
         IF o = "ok"
         THEN /\ sentSizes' = Append(sentSizes, files[1])
              /\ Emit("delivered", "ok")
              /\ pc' = "dv_cleanup" /\ err' = err
         ELSE /\ UNCHANGED <<sentSizes, events>>
              /\ pc' = "dl_except" /\ err' = "transport error"
    /\ UNCHANGED <<dlFrame, quality, files, fetchVars>>

\* youtube_dl_bot.py:487-488  os.remove(video_filename)
DvCleanup ==
    /\ pc = "dv_cleanup"
    /\ \E o \in Outcomes :
         IF o = "ok"
         THEN files' = <<>> /\ pc' = "dv_edit_done" /\ err' = err
         ELSE files' = files /\ pc' = "dl_except" /\ err' = "remove failed"
    /\ UNCHANGED <<dlFrame, quality, events, sentSizes, fetchVars>>

\* youtube_dl_bot.py:489-494  edit_message_text("Video downloaded
\* successfully!")
DvEditDone ==
    /\ pc = "dv_edit_done"
    /\ DlCall("returned")
    /\ UNCHANGED <<dlFrame, quality, files, events, sentSizes, fetchVars>>

DvNext ==
    \/ DvEditDownloading \/ DvFetch \/ DvEditUploading \/ DvSize
    \/ DvEditOversize \/ DvRetry \/ DvEditLowest \/ DvOfferAudio
    \/ DvRemoveOversize \/ DvSend \/ DvCleanup \/ DvEditDone

\* youtube_dl_bot.py:505-509  edit_message_text("Downloading audio")
DaEditDownloading ==
    /\ pc = "da_edit_downloading"
    /\ DlCall("da_fetch")
    /\ UNCHANGED <<dlFrame, quality, files, events, sentSizes, fetchVars>>

\* youtube_dl_bot.py:511-533  extract_info(url, download=True) with the
\* FFmpegExtractAudio postprocessor at preferredquality "192"
DaFetch ==
    /\ pc = "da_fetch"
    /\ tried' = Append(tried, "192")
    /\ \E o \in FetchOutcomes :
         /\ fetched' = Append(fetched, o)
         /\ files' = (IF o = "file" THEN <<sizes["192"]>> ELSE files)
         /\ IF o = "raise"
            THEN pc' = "dl_except" /\ err' = "fetch error"
            ELSE pc' = "da_edit_uploading" /\ err' = err
    /\ UNCHANGED <<dlFrame, quality, events, sentSizes>>

\* youtube_dl_bot.py:535-537  edit_message_text("Audio extraction
\* complete! Uploading")
DaEditUploading ==
    /\ pc = "da_edit_uploading"
    /\ DlCall("da_exists")
    /\ UNCHANGED <<dlFrame, quality, files, events, sentSizes, fetchVars>>

\* youtube_dl_bot.py:539-552  the file is missing and nothing matches:
\* edit_message_text("Could not find the extracted audio file"); return
DaExists ==
    /\ pc = "da_exists"
    /\ IF files = <<>>
       THEN DlReport("failed", "returned")
       ELSE events' = events /\ pc' = "da_size" /\ err' = err
    /\ UNCHANGED <<dlFrame, quality, files, sentSizes, fetchVars>>

\* youtube_dl_bot.py:554-555  file_size > 50 MiB
DaSize ==
    /\ pc = "da_size"
    /\ pc' = (IF Oversize(files[1]) THEN "da_edit_oversize" ELSE "da_send")
    /\ UNCHANGED <<dlFrame, quality, files, events, sentSizes, fetchVars, err>>

\* youtube_dl_bot.py:556-559  edit_message_text("larger than 50MB ...
\* Trying with a lower quality")
DaEditOversize ==
    /\ pc = "da_edit_oversize"
    /\ DlCall("da_retry")
    /\ UNCHANGED <<dlFrame, quality, files, events, sentSizes, fetchVars>>

\* youtube_dl_bot.py:561-567  os.remove(audio_filename); preferredquality
\* "96"; extract_info(url, download=True)
DaRetry ==
    /\ pc = "da_retry"
    /\ \/ /\ tried' = Append(tried, "96")
          /\ \E o \in FetchOutcomes :
               /\ fetched' = Append(fetched, o)
               /\ files' = (IF o = "file" THEN <<sizes["96"]>> ELSE <<>>)
               /\ IF o = "raise"
                  THEN pc' = "dl_except" /\ err' = "fetch error"
                  ELSE pc' = "da_recheck" /\ err' = err
       \/ /\ UNCHANGED <<fetchVars, files>>
          /\ pc' = "dl_except" /\ err' = "remove failed"
    /\ UNCHANGED <<dlFrame, quality, events, sentSizes>>

\* DaRecheck without the size test of the second artifact.
DaRecheck_ExistsOnly ==
    /\ pc = "da_recheck"
    /\ pc' = (IF files = <<>> THEN "da_edit_sorry" ELSE "da_send")
    /\ UNCHANGED <<dlFrame, quality, files, events, sentSizes, fetchVars, err>>

\* youtube_dl_bot.py:569-572  not exists or getsize > 50 MiB
DaRecheck ==
    /\ pc = "da_recheck"
    /\ pc' = (IF files = <<>> \/ Oversize(files[1]) THEN "da_edit_sorry"
              ELSE "da_send")
    /\ UNCHANGED <<dlFrame, quality, files, events, sentSizes, fetchVars, err>>

\* youtube_dl_bot.py:573-575  edit_message_text("Sorry, even the
\* compressed audio exceeds Telegram's file size limit")
DaEditSorry ==
    /\ pc = "da_edit_sorry"
    /\ DlReport("failed", "da_remove_sorry")
    /\ UNCHANGED <<dlFrame, quality, files, sentSizes, fetchVars>>

\* youtube_dl_bot.py:576-578  if exists: os.remove(audio_filename); return
DaRemoveSorry ==
    /\ pc = "da_remove_sorry"
    /\ IF files = <<>>
       THEN files' = files /\ pc' = "returned" /\ err' = err
       ELSE \E o \in Outcomes :
              IF o = "ok"
              THEN files' = <<>> /\ pc' = "returned" /\ err' = err
              ELSE files' = files /\ pc' = "dl_except"
                   /\ err' = "remove failed"
    /\ UNCHANGED <<dlFrame, quality, events, sentSizes, fetchVars>>

\* youtube_dl_bot.py:580-588  send_audio
DaSend ==
    /\ pc = "da_send"
    /\ \E o \in TransportOutcomes :
         IF o = "ok"
         THEN /\ sentSizes' = Append(sentSizes, files[1])
              /\ Emit("delivered", "ok")
              /\ pc' = "da_cleanup" /\ err' = err
         ELSE /\ UNCHANGED <<sentSizes, events>>
              /\ pc' = "dl_except" /\ err' = "transport error"
    /\ UNCHANGED <<dlFrame, quality, files, fetchVars>>

\* youtube_dl_bot.py:590-591  os.remove(audio_filename)
DaCleanup ==
    /\ pc = "da_cleanup"
    /\ \E o \in Outcomes :
         IF o = "ok"
         THEN files' = <<>> /\ pc' = "da_edit_done" /\ err' = err
         ELSE files' = files /\ pc' = "dl_except" /\ err' = "remove failed"
    /\ UNCHANGED <<dlFrame, quality, events, sentSizes, fetchVars>>

\* youtube_dl_bot.py:592-595  edit_message_text("Audio downloaded
\* successfully!")
DaEditDone ==
    /\ pc = "da_edit_done"
    /\ DlCall("returned")
    /\ UNCHANGED <<dlFrame, quality, files, events, sentSizes, fetchVars>>

DaNext ==
    \/ DaEditDownloading \/ DaFetch \/ DaEditUploading \/ DaExists
    \/ DaSize \/ DaEditOversize \/ DaRetry \/ DaRecheck \/ DaEditSorry
    \/ DaRemoveSorry \/ DaSend \/ DaCleanup \/ DaEditDone

DlNext == DlAnswer \/ DlProcessing \/ DlExcept \/ DvNext \/ DaNext

Next == RbNext \/ YbNext \/ DlNext

Spec == Init /\ [][Next]_vars

----------------------------------------------------------------------------
(* bot/tasks.py clean_incomplete_activities, run hourly by celery beat *)

\* The hours of the clock the model follows.
MaxNow == 3

\* tasks.py:85  cutoff_time = timezone.now() - timedelta(hours=1)
SweepCutoffHours == 1

\* tasks.py:88-91  filter(started_at__lt=cutoff_time, success__isnull=True)
Stalled(a) == a.started_at < now - SweepCutoffHours /\ ~a.completed

\* DownloadActivity.mark_complete(success, error_message)
mark_complete(a, success, error_message) ==
    [a EXCEPT !.completed = TRUE, !.success = success,
              !.error_message = error_message]

handlerVars == <<variant, pc, download_type, quality, info, video_title,
                 sizes, download, rows, userTouches, rowWrites, userRow, user,
                 activity_id, locals,
                 files, events, sentSizes, tried, fetched, err, concVars,
                 session, url, common_options, routeVars, effective_user,
                 chatVars, stats>>

\* tasks.py:80-100  every stalled DownloadActivity is marked as failed; the
\* Download rows of bot/models.py are not looked at.
clean_incomplete_activities ==
    /\ activities' =
         [i \in DOMAIN activities |->
            IF Stalled(activities[i])
            THEN mark_complete(activities[i], FALSE, "Timed out")
            ELSE activities[i]]
    /\ swept_at' = now
    /\ UNCHANGED <<handlerVars, now, purge>>

\* An hour passes, at any point of a run or after it.
Tick ==
    /\ now < MaxNow
    /\ now' = now + 1
    /\ UNCHANGED <<handlerVars, activities, swept_at, purge>>

\* The variants that keep attempt records, with the hourly sweep.
SweepInit ==
    /\ Init
    /\ variant \in {"runbot", "youtube_bot"}
    /\ url \in {UrlYoutube, NoUrl}

SweepNext == RbNext \/ YbNext \/ Tick \/ clean_incomplete_activities

SweepSpec == SweepInit /\ [][SweepNext]_vars

----------------------------------------------------------------------------
(* bot/tasks.py purge_old_raw_data, run monthly by celery beat *)

HoursPerDay == 24

\* celery.py:33  'kwargs': {'days': 90}
PurgeDays == 90

\* Purgeable without the filter on the recorded outcome.
Purgeable_AnyOld(a, days) == a.started_at < now - days * HoursPerDay

\* tasks.py:107-113  filter(started_at__lt=cutoff_date,
\* success__isnull=False)
Purgeable(a, days) ==
    a.started_at < now - days * HoursPerDay /\ a.completed

\* The activity is stored: no purge has deleted it.
Present(i) == i \notin purge.deleted

\* tasks.py:102-118  old_activities.delete(); beat starts the task once a
\* month, so not twice within an hour.
purge_old_raw_data(days) ==
    /\ purge.at # now
    /\ purge' = [at |-> now,
                 deleted |-> purge.deleted \cup
                    {i \in DOMAIN activities :
                       Present(i) /\ Purgeable(activities[i], days)}]
    /\ UNCHANGED <<handlerVars, activities, now, swept_at>>

\* celery.py:29-34  the task of the beat schedule
PurgeBeat == purge_old_raw_data(PurgeDays)

\* The days of the purge cutoff pass, at any point of a run or after it.
Quarter ==
    /\ now <= MaxNow
    /\ now' = now + PurgeDays * HoursPerDay
    /\ UNCHANGED <<handlerVars, activities, swept_at, purge>>

\* A request of youtube_bot, whose activities the analytics service keeps,
\* with the clock, the hourly sweep and the monthly purge.
PurgeInit ==
    /\ Init
    /\ variant = "youtube_bot" /\ download_type = "VIDEO"
    /\ sizes \in [{"best"} -> {20 * MiB, 80 * MiB}]

PurgeNext ==
    YbNext \/ Tick \/ Quarter \/ clean_incomplete_activities \/ PurgeBeat

PurgeSpec == PurgeInit /\ [][PurgeNext]_vars

----------------------------------------------------------------------------
(* youtube_bot.py download_callback, lines 149-212, on concurrent threads:  *)
(* the steps that touch the process working directory and the directories. *)
(* A file is named by the request whose fetch wrote it.                    *)

runVars == <<variant, pc, download_type, quality, info, video_title,
             sizes, download, rows, userTouches, rowWrites, userRow, user,
             activity_id,
             activities,
             locals, files, events, sentSizes, tried, fetched, err, now,
             swept_at, url, common_options, routeVars, effective_user,
             purge, chatVars, stats>>
requestVars == <<runVars, session>>

At(r, p) == req[r].pc = p
Goto(r, p) == req' = [req EXCEPT ![r].pc = p]

\* youtube_bot.py:149  with tempfile.TemporaryDirectory() as tmp_dir
CMkdtemp(r) ==
    /\ At(r, "start")
    /\ dirs' = [dirs EXCEPT ![r] = [exists |-> TRUE, files |-> {}]]
    /\ Goto(r, "getcwd")
    /\ UNCHANGED <<requestVars, cwd>>

\* youtube_bot.py:152  original_dir = os.getcwd(), which raises when the
\* working directory was removed; original_dir is then unbound.
CGetcwd(r) ==
    /\ At(r, "getcwd")
    /\ IF dirs[cwd].exists
       THEN req' = [req EXCEPT ![r].original_dir = cwd, ![r].pc = "chdir"]
       ELSE Goto(r, "except_unbound")
    /\ UNCHANGED <<requestVars, cwd, dirs>>

\* youtube_bot.py:153  os.chdir(tmp_dir)
CChdir(r) ==
    /\ At(r, "chdir")
    /\ cwd' = r
    /\ Goto(r, "download")
    /\ UNCHANGED <<requestVars, dirs>>

\* youtube_bot.py:128, 156-157  ydl.download([url]) with the relative
\* outtmpl '%(title)s.%(ext)s': the file is written to the working directory
CDownload(r) ==
    /\ At(r, "download")
    /\ IF dirs[cwd].exists
       THEN /\ dirs' = [dirs EXCEPT ![cwd].files = @ \cup {r}]
            /\ Goto(r, "listdir")
       ELSE /\ dirs' = dirs
            /\ Goto(r, "except")
    /\ UNCHANGED <<requestVars, cwd>>

\* youtube_bot.py:160-165  files = os.listdir(); files[0] (the order of
\* os.listdir is arbitrary); os.path.getsize(os.path.join(tmp_dir, files[0]))
CListdir(r) ==
    /\ At(r, "listdir")
    /\ IF ~dirs[cwd].exists \/ dirs[cwd].files = {}
       THEN Goto(r, "except")
       ELSE \E f \in dirs[cwd].files :
              IF f \in dirs[r].files
              THEN req' = [req EXCEPT ![r].picked = f, ![r].listed = cwd,
                                      ![r].pc = "send"]
              ELSE Goto(r, "except")
    /\ UNCHANGED <<requestVars, cwd, dirs>>

\* youtube_bot.py:168-196  the file at file_path is sent to the user
CSend(r) ==
    /\ At(r, "send")
    /\ \E o \in TransportOutcomes :
         Goto(r, IF o = "ok" THEN "finally" ELSE "except")
    /\ UNCHANGED <<requestVars, cwd, dirs>>

\* youtube_bot.py:198-208  except Exception: the failure is reported
CExcept(r) ==
    /\ req[r].pc \in {"except", "except_unbound"}
    /\ Goto(r, IF At(r, "except") THEN "finally" ELSE "finally_unbound")
    /\ UNCHANGED <<requestVars, cwd, dirs>>

\* youtube_bot.py:210-212  finally: os.chdir(original_dir), which raises
\* when original_dir is unbound or was removed
CFinally(r) ==
    /\ req[r].pc \in {"finally", "finally_unbound"}
    /\ cwd' = (IF At(r, "finally") /\ dirs[req[r].original_dir].exists
               THEN req[r].original_dir ELSE cwd)
    /\ Goto(r, "cleanup")
    /\ UNCHANGED <<requestVars, dirs>>

\* youtube_bot.py:149  leaving the with block removes tmp_dir
CCleanup(r) ==
    /\ At(r, "cleanup")
    /\ dirs' = [dirs EXCEPT ![r] = [exists |-> FALSE, files |-> {}]]
    /\ Goto(r, "done")
    /\ UNCHANGED <<requestVars, cwd>>

\* Two videos are requested at once from youtube_bot.
ConcInit ==
    /\ Init
    /\ variant = "youtube_bot" /\ download_type = "VIDEO"
    /\ sizes = [t \in {"best"} |-> 20 * MiB]

ConcNext ==
    \E r \in Requests :
      \/ CMkdtemp(r) \/ CGetcwd(r) \/ CChdir(r) \/ CDownload(r)
      \/ CListdir(r) \/ CSend(r) \/ CExcept(r) \/ CFinally(r)
      \/ CCleanup(r)

ConcSpec == ConcInit /\ [][ConcNext]_vars

----------------------------------------------------------------------------
(* The requesting session is closed while a request is being handled: the  *)
(* handlers learn of it from the chat transport, whose calls raise.        *)

Cancel ==
    /\ session = "live"
    /\ pc \notin {"returned", "raised"}
    /\ session' = "gone"
    /\ UNCHANGED <<runVars, concVars>>

CancelNext == Next \/ Cancel

CancelSpec == Init /\ [][CancelNext]_vars

----------------------------------------------------------------------------
(* The user's row is written by others while a request is handled: another *)
(* request of the same user, or the admin site (bot/admin.py).             *)

\* The edits of the profile by others the model follows.
MaxProfileEdits == 2

OtherUserWrite ==
    /\ userRow # NoUser
    /\ userRow < MaxProfileEdits
    /\ userRow' = userRow + 1
    /\ UNCHANGED <<variant, pc, download_type, quality, info, video_title,
                   sizes, download, rows, userTouches, rowWrites, user,
                   activity_id, activities, locals, files, events,
                   sentSizes, fetchVars, err, now, swept_at, concVars,
                   session, url, common_options, routeVars,
                   effective_user, purge, chatVars, stats>>

\* The profile fields the user has set in Telegram since the row was
\* created: none of the values an edit of the row has written.
NewProfile == MaxProfileEdits + 1

\* A request of a user who has no row yet or has one, and whose Telegram
\* profile is the one of the row's creation or a newer one.
ProfileInit ==
    /\ InitData
    /\ variant = "runbot"
    /\ pc = "start"
    /\ url = UrlYoutube
    /\ message_text = NoUrl
    /\ hpc = "none"
    /\ userRow \in {NoUser, 0}
    /\ effective_user \in {0, NewProfile}

ProfileNext == RbNext \/ OtherUserWrite

ProfileSpec == ProfileInit /\ [][ProfileNext]_vars

----------------------------------------------------------------------------
(* Vocabulary of the properties *)

\* The handler is over: it returned, or an exception left it.
Ended == pc \in {"returned", "raised"}

Delivered == sentSizes # <<>>

\* The terminal results issued, and those of them the user saw.
Results(evs) == [i \in DOMAIN evs |-> evs[i].result]
Shown == SelectSeq(events, LAMBDA e : e.shown)

\* bot/admin.py:101-116  download_status: a row that is neither a success
\* nor carries an error message is shown as 'Processing'.
Processing(r) == ~r.success /\ r.error_message \in {"null", ""}

\* The video ladder of the specification, top first, and a tier's place.
Ladder == <<"high", "medium", "low">>
Rank(q) == CHOOSE i \in DOMAIN Ladder : Ladder[i] = q

Fits(size) == size <= TransportSizeLimit

\* The place in the ladder of the first tier, from the top, that fits
\* (0 when none does).
HighestFitting(sz) ==
    IF \E i \in DOMAIN Ladder : Fits(sz[Ladder[i]])
    THEN CHOOSE i \in DOMAIN Ladder :
           /\ Fits(sz[Ladder[i]])
           /\ \A j \in 1..(i - 1) : ~Fits(sz[Ladder[j]])
    ELSE 0

DlVideo == variant = "youtube_dl_bot" /\ download_type = "VIDEO"

\* The documented scenario: 720p 80 MiB, 480p 40 MiB, 360p 20 MiB.
ScenarioSizes ==
    [q \in Qualities |-> CASE q = "high" -> 80 * MiB
                           [] q = "medium" -> 40 * MiB
                           [] OTHER -> 20 * MiB]

----------------------------------------------------------------------------
(* Properties *)

\* C1: every download request reports exactly one terminal result
\* (delivered, rejected or failed): the user never sees two, and a handler
\* that returns has issued one.
C1_ExactlyOneResult ==
    /\ Len(Shown) <= 1
    /\ pc = "returned" => Len(events) >= 1

\* C2: when the run ends, a finalized attempt record is marked successful if
\* and only if the file was sent to the user.
C2_SuccessIffSent ==
    Ended =>
      /\ \A i \in DOMAIN rows : rows[i].success <=> Delivered
      /\ \A i \in DOMAIN activities :
           activities[i].completed => (activities[i].success <=> Delivered)

\* C3: when runbot's download_video returns or raises, no Download row it
\* created is left in the state the admin shows as 'Processing' (stated for
\* the requests whose metadata carries a duration).
C3_NoRowLeftPending ==
    (variant = "runbot" /\ Ended /\ info.hasDuration) =>
      \A i \in DOMAIN rows :
        /\ ~Processing(rows[i])
        /\ \/ rows[i].success /\ rows[i].completed_at = "set"
           \/ rows[i].error_message \notin {"null", ""}

\* C4: a video request that starts at the top of the ladder delivers the
\* highest tier whose artifact fits the transport size limit; in the
\* documented scenario the tiers tried are 720p then 480p and 480p is
\* delivered.
C4_DeliversHighestFitting ==
    (DlVideo /\ Delivered /\ tried[1] = "high") =>
      /\ Rank(quality) = HighestFitting(sizes)
      /\ sizes = ScenarioSizes =>
           tried = <<"high", "medium">> /\ quality = "medium"

\* C5: ladder degradation never skips a tier: each fetch after the first is
\* at the tier right below the one fetched before it.
C5_NoTierSkipped ==
    DlVideo =>
      \A i \in 1..(Len(tried) - 1) : Rank(tried[i + 1]) = Rank(tried[i]) + 1

\* C6: in every variant, no file larger than the transport size limit
\* (52428800 bytes) is sent to the user.
C6_SentWithinLimit ==
    \A i \in DOMAIN sentSizes : sentSizes[i] <= TransportSizeLimit

\* C7: in runbot, a request whose duration exceeds the ceiling of 600 seconds
\* never reaches a fetch, and when it returns it was rejected and its row is
\* a failure with the reason 'Video too long'.
C7_LongVideoRejected ==
    (variant = "runbot" /\ info.hasDuration
       /\ info.duration > DurationCeiling) =>
      /\ tried = <<>>
      /\ (pc = "returned" /\ video_title # "unset") =>
           /\ Results(events) = <<"rejected">>
           /\ Len(rows) = 1 /\ ~rows[1].success
           /\ rows[1].error_message = "Video too long"

\* The positions of the rejection branch, runbot.py:364-371.
RejectionBranch == {"rb_reject_edit", "rb_reject_save"}

\* C8: a run of runbot's download_video that ends by rejecting the request
\* for its duration (it returns from the rejection branch) leaves exactly
\* one Download row, created before the duration check, which is a failure
\* with the reason 'Video too long', and it fetched nothing.
C8_RejectionAudited ==
    /\ (variant = "runbot" /\ pc = "returned" /\ Results(events) = <<"rejected">>) =>
         /\ Len(rows) = 1
         /\ ~rows[1].success
         /\ rows[1].error_message = "Video too long"
         /\ tried = <<>>
    /\ pc \in {"rb_duration_check"} \cup RejectionBranch =>
         /\ Len(rows) = 1 /\ download = rows[1]
         /\ tried = <<>>

C8_Witness ==
    /\ variant = "runbot" /\ pc = "returned" /\ Results(events) = <<"rejected">>
    /\ info.duration = 6001

\* extract_info(download=False) raised in this run.
MetadataRaised == err = "info error"

\* C9: when the metadata resolution raises, a failure (and nothing else) is
\* reported through the chat transport, no attempt record is created and
\* nothing is fetched.
C9_MetadataFailure ==
    MetadataRaised =>
      /\ rows = <<>> /\ activities = <<>> /\ download = NoDownload
      /\ tried = <<>>
      /\ Ended => Results(events) = <<"failed">>

C9_Witness ==
    MetadataRaised /\ pc = "returned" /\ Results(events) = <<"failed">>

\* C10: every call of youtube_bot's download_callback whose metadata
\* resolved has recorded exactly one activity when it ends, also when the
\* start-download call failed.
C10_OneActivityPerRequest ==
    (variant = "youtube_bot" /\ Ended /\ video_title # "unset") =>
      Len(activities) = 1

\* A Download row is pending while it is neither a success nor carries an
\* error message (models.py:48-49, admin.py:101-116).
Pending(r) == Processing(r)

\* C11: in every reachable state, a stored Download row has completed_at set
\* if and only if it is no longer pending: a row finalized as a failure has
\* completed_at set, as a successful row does.
C11_CompletedIffTerminal ==
    \A i \in DOMAIN rows :
      (rows[i].completed_at = "set") <=> ~Pending(rows[i])

\* C12: in every reachable state, an attempt record with a file size greater
\* than 0 is a successful one, among the stored Download rows of runbot and
\* among the completion data youtube_bot posted to complete-download/.
C12_SizeImpliesSuccess ==
    /\ \A i \in DOMAIN rows : rows[i].file_size > 0 => rows[i].success
    /\ \A i \in DOMAIN activities :
         (activities[i].completed /\ activities[i].file_size > 0)
           => activities[i].success


AllOversize ==
    \A t \in TiersOf(variant, download_type) : sizes[t] > TransportSizeLimit

\* The lowest tier a request of this variant and kind can fetch.
LowestTier ==
    IF variant = "youtube_dl_bot"
    THEN IF download_type = "VIDEO" THEN "low" ELSE "96"
    ELSE "best"

\* An attempt record of the request is stored as a failure.
FailureRecorded ==
    \/ \E i \in DOMAIN rows : ~rows[i].success /\ ~Pending(rows[i])
    \/ \E i \in DOMAIN activities :
         activities[i].completed /\ ~activities[i].success

\* C14: when every tier yields an artifact over the transport size limit and
\* the handler returns, without any other error, after it fetched the lowest
\* tier, the request has reported a failure (and only that), an attempt
\* record is stored as a failure, and nothing was sent (stated for the
\* variant that has a ladder, youtube_dl_bot).
C14_AllOversizeFails ==
    (/\ variant = "youtube_dl_bot"
     /\ AllOversize /\ pc = "returned" /\ err = NoErr
     /\ tried # <<>> /\ tried[Len(tried)] = LowestTier) =>
      /\ sentSizes = <<>>
      /\ Results(events) = <<"failed">>
      /\ FailureRecorded


\* A fetch of this request ended in an error: yt-dlp raised, or it left no
\* file.
FetchFailed == \E i \in DOMAIN fetched : fetched[i] # "file"

FailureReported == \E i \in DOMAIN events : events[i].result = "failed"

\* C15: once a fetch ended in an error other than an oversize artifact, no
\* further fetch is made at any tier, nothing is sent, and when the handler
\* ends it has reported a failure.
C15_FetchErrorEnds ==
    [][FetchFailed =>
         /\ tried' = tried
         /\ sentSizes' = <<>>
         /\ pc' \in {"returned", "raised"} => FailureReported']_vars

\* A request that degraded once and whose second fetch ended in an error.
C15_Witness ==
    /\ pc = "returned" /\ Len(fetched) = 2 /\ fetched[2] # "file"
    /\ FailureReported


\* C16: when the handler is over, by a return or by an exception, no file of
\* any of its fetches remains in the request's workspace (runbot's and
\* youtube_bot's temporary directory, youtube_dl_bot's downloads/<chat_id>).
C16_WorkspaceClean == Ended => files = <<>>


\* C17: under every interleaving of concurrent requests, the file a request
\* picks as its artifact (an entry of os.listdir() of the working directory)
\* was written by its own fetch and listed in its own temporary directory.
C17_WorkspaceOwned ==
    \A r \in Requests :
      req[r].picked # 0 => req[r].picked = r /\ req[r].listed = r


\* C18: when the requesting session was cancelled before the request ended,
\* the handler leaves no attempt record pending and no file in the workspace
\* (stated for the requests whose metadata carries a duration).
C18_CancelFinalizes ==
    (session = "gone" /\ Ended /\ info.hasDuration) =>
      /\ \A i \in DOMAIN rows : ~Pending(rows[i])
      /\ \A i \in DOMAIN activities : activities[i].completed
      /\ files = <<>>


\* The record was started more than the cutoff before hour t.
StalledAt(r, t) == r.started_at < t - SweepCutoffHours

\* C19: after a sweep, no attempt record of a crashed run that was started
\* more than one hour before that sweep is still pending: the sweep has
\* finalized the stalled Download rows and activities.
C19_SweepFinalizesStalled ==
    (swept_at # NoSweep /\ pc = "raised") =>
      /\ \A i \in DOMAIN rows :
           StalledAt(rows[i], swept_at) => ~Pending(rows[i])
      /\ \A i \in DOMAIN activities :
           StalledAt(activities[i], swept_at) => activities[i].completed


\* C20: in every reachable state, the user's last_active was stored for
\* exactly the Download writes that were stored: the two writes of
\* Download.save take effect together or not at all.
C20_SaveAtomic == userTouches = rowWrites


\* C21: a step that stores the user's last_active for a Download write
\* leaves the stored profile fields of that user (username, first_name,
\* last_name, language_code) as they were, also when they were changed by
\* others after the pipeline loaded the user.
C21_OnlyLastActive ==
    [][userTouches' # userTouches => userRow' = userRow]_vars


-----------------------------------------------------------------------------
(* runbot.py: a message, routed to its url handler, and the button pressed *)

\* A link the id of which holds underscores.
UrlYoutubeUnderscores ==
    <<"https://", "youtu", ".", "be", "/", "a", "_", "b", "_", "c">>

\* The messages sent to the bot: a link alone, a link with words around it,
\* two links of different sites, and a text without a link.
Messages ==
    Urls \cup {<<"hello">>,
               <<" ">> \o UrlYoutube,
               UrlInstaReel \o <<"/", "?share=", "stories">>,
               UrlInstaPost \o <<" ", "from", " ", "her", " ", "stories">>,
               UrlYoutubeUnderscores,
               UrlYoutube \o <<" ">> \o UrlInstaReel,
               UrlPornhub \o <<" ">> \o UrlYoutube,
               UrlTiktok \o <<" ">> \o UrlPornhub}

\* Pieces no character of which is matched by [\w.-].
NonWord ==
    {"https://", "/", " ", "watch?v=", "video.php?viewkey=", "@name",
     "?share="}

\* re.search of a pattern whose alternative is the pieces `prefix` followed
\* by one or more of the characters `chars` accepts.
Follows(prefix, chars, text) ==
    \E i \in 0..(Len(text) - Len(prefix) - 1) :
      /\ \A j \in 1..Len(prefix) : text[i + j] = prefix[j]
      /\ text[i + Len(prefix) + 1] \in chars

\* The pieces of the messages, and those made of [\w.-] or [\w-] only.
Pieces == UNION {{m[i] : i \in DOMAIN m} : m \in Messages}
WordDotDash == Pieces \ NonWord
WordDash == WordDotDash \ {"."}

\* runbot.py:494-496  youtube_pattern
youtube_pattern(text) ==
    \/ Follows(<<"youtube", ".", "com", "/", "watch?v=">>, WordDash, text)
    \/ Follows(<<"youtu", ".", "be", "/">>, WordDash, text)

\* runbot.py:497  instagram_pattern
instagram_pattern(text) ==
    \/ Follows(<<"instagram", ".", "com", "/", "p", "/">>, WordDotDash, text)
    \/ Follows(<<"instagram", ".", "com", "/", "stories", "/">>,
               WordDotDash, text)
    \/ Follows(<<"instagram", ".", "com", "/", "reel", "/">>,
               WordDotDash, text)
    \/ Follows(<<"instagr", ".", "am", "/", "p", "/">>, WordDotDash, text)

\* runbot.py:498  tiktok_pattern
tiktok_pattern(text) ==
    \/ Follows(<<"tiktok", ".", "com", "/", "@name", "/", "video", "/">>,
               WordDash, text)
    \/ Follows(<<"tiktok", ".", "com", "/", "v", "/">>, WordDash, text)
    \/ Follows(<<"tiktok", ".", "com", "/", "t", "/">>, WordDash, text)
    \/ Follows(<<"tiktok", ".", "com", "/", "embed", "/">>, WordDash, text)
    \/ Follows(<<"vm", ".", "tiktok", ".", "com", "/">>, WordDash, text)
    \/ Follows(<<"vt", ".", "tiktok", ".", "com", "/">>, WordDash, text)

\* runbot.py:499-501  pornhub_pattern
pornhub_pattern(text) ==
    \/ Follows(<<"https://", "pornhub", ".", "com", "/",
                 "view", "_", "video.php?viewkey=">>, WordDash, text)
    \/ Follows(<<"https://", "www", ".", "pornhub", ".", "com", "/",
                 "view", "_", "video.php?viewkey=">>, WordDash, text)

\* str.strip(): the text without its leading and trailing blanks.
RECURSIVE strip(_)
strip(text) ==
    IF text = <<>> THEN text
    ELSE IF Head(text) = " " THEN strip(Tail(text))
    ELSE IF text[Len(text)] = " " THEN strip(SubSeq(text, 1, Len(text) - 1))
    ELSE text

\* f"dl_video_{url}" and f"dl_audio_{url}"
CallbackData(kind, u) == <<"dl", "_", kind, "_">> \o u

\* str.split(sep, maxsplit): the text is cut at its first maxsplit
\* separators, from the left.
RECURSIVE split(_, _, _)
split(text, sep, maxsplit) ==
    LET hits == {i \in DOMAIN text : text[i] = sep} IN
    IF maxsplit = 0 \/ hits = {} THEN <<text>>
    ELSE LET i == CHOOSE k \in hits : \A l \in hits : k <= l
         IN  <<SubSeq(text, 1, i - 1)>>
               \o split(SubSeq(text, i + 1, Len(text)), sep, maxsplit - 1)

\* query.data.split("_"): the text cut at every underscore.
SplitParts_Every(data) == split(data, "_", Len(data))

\* runbot.py:236  parts = query.data.split("_", 2)
SplitParts(data) == split(data, "_", 2)

\* youtube_bot.py:94  parts = call.data.split('_', 2)
download_callback_parts(data) == split(data, "_", 2)

\* runbot.py:237  parts[1].upper()
Upper(kind) ==
    IF kind = <<"video">> THEN "VIDEO"
    ELSE IF kind = <<"audio">> THEN "AUDIO"
    ELSE "OTHER"

\* The texts of the replies.
StoryNotice ==
    "Instagram story detected. Note that story downloads may require authentication."
Unresolved == "Could not resolve shortened TikTok URL"
ValidLinkPlease == "Please send a valid link. Use /help for more information."

\* Everything but the handlers' own variables and the download step's
\* entry.
routeFrame == <<variant, quality, info, video_title, sizes, rbVars, ybVars,
                files, events, sentSizes, fetchVars, err, now, swept_at,
                concVars, session, common_options, effective_user, purge,
                chatVars, stats>>

\* update.message.reply_text(text): delivered, or the transport raises and
\* the dispatcher logs the error of the handler.
Reply(text, next) ==
    \E o \in TransportOutcomes :
      /\ replies' = (IF o = "ok" THEN Append(replies, text) ELSE replies)
      /\ hpc' = (IF o = "ok" THEN next ELSE "raised")

\* reply_text(prompt, reply_markup=...) with the Video and the Audio button
Offer(prompt, buttons) ==
    \E o \in TransportOutcomes :
      /\ replies' = (IF o = "ok" THEN Append(replies, prompt) ELSE replies)
      /\ keyboard' = (IF o = "ok" THEN buttons ELSE keyboard)
      /\ hpc' = (IF o = "ok" THEN "returned" ELSE "raised")

UrlButtons(u) == <<CallbackData("video", u), CallbackData("audio", u)>>

\* handle_message with the YouTube pattern tried before the Instagram one.
handle_message_YoutubeFirst ==
    /\ hpc = "handle_message"
    /\ hpc' = (IF youtube_pattern(message_text) THEN "handle_youtube_url"
               ELSE IF instagram_pattern(message_text)
               THEN "handle_instagram_url"
               ELSE IF pornhub_pattern(message_text) THEN "handle_pornhub_url"
               ELSE IF tiktok_pattern(message_text) THEN "handle_tiktok_url"
               ELSE "invalid")
    /\ UNCHANGED <<routeFrame, pc, download_type, url, message_text, hurl,
                   replies, keyboard, user_data, resolutions>>

\* runbot.py:503-510  the first pattern found in the text picks the handler
handle_message ==
    /\ hpc = "handle_message"
    /\ hpc' = (IF instagram_pattern(message_text) THEN "handle_instagram_url"
               ELSE IF youtube_pattern(message_text) THEN "handle_youtube_url"
               ELSE IF pornhub_pattern(message_text) THEN "handle_pornhub_url"
               ELSE IF tiktok_pattern(message_text) THEN "handle_tiktok_url"
               ELSE "invalid")
    /\ UNCHANGED <<routeFrame, pc, download_type, url, message_text, hurl,
                   replies, keyboard, user_data, resolutions>>

\* runbot.py:511-521  no pattern found
HmInvalid ==
    /\ hpc = "invalid"
    /\ Reply(ValidLinkPlease, "returned")
    /\ UNCHANGED <<routeFrame, pc, download_type, url, message_text, hurl,
                   keyboard, user_data, resolutions>>

\* runbot.py:139-154
handle_youtube_url ==
    /\ hpc = "handle_youtube_url"
    /\ hurl' = strip(message_text)
    /\ Offer("Please select the download format:", UrlButtons(hurl'))
    /\ UNCHANGED <<routeFrame, pc, download_type, url, message_text,
                   user_data, resolutions>>

\* runbot.py:157-167  is_story = "stories" in url, and the notice
handle_instagram_url ==
    /\ hpc = "handle_instagram_url"
    /\ hurl' = strip(message_text)
    /\ IF Sub(<<"stories">>, hurl')
       THEN Reply(StoryNotice, "ig_keyboard")
       ELSE hpc' = "ig_keyboard" /\ replies' = replies
    /\ UNCHANGED <<routeFrame, pc, download_type, url, message_text,
                   keyboard, user_data, resolutions>>

\* runbot.py:169-180
IgOffer ==
    /\ hpc = "ig_keyboard"
    /\ Offer("Please select the download format:", UrlButtons(hurl))
    /\ UNCHANGED <<routeFrame, pc, download_type, url, message_text, hurl,
                   user_data, resolutions>>

\* runbot.py:185-188  if "vm.tiktok.com" in url or "/t/" in url
handle_tiktok_url ==
    /\ hpc = "handle_tiktok_url"
    /\ hurl' = strip(message_text)
    /\ hpc' = (IF \/ Sub(<<"vm", ".", "tiktok", ".", "com">>, hurl')
                  \/ Sub(<<"/", "t", "/">>, hurl')
               THEN "tk_resolve" ELSE "tk_keyboard")
    /\ UNCHANGED <<routeFrame, pc, download_type, url, message_text,
                   replies, keyboard, user_data, resolutions>>

\* runbot.py:189-193  url = ydl.extract_info(url)["webpage_url"], or except
TkResolve ==
    /\ hpc = "tk_resolve"
    /\ resolutions' = resolutions + 1
    /\ \E o \in Outcomes :
         /\ hurl' = (IF o = "ok" THEN UrlTiktok ELSE hurl)
         /\ hpc' = (IF o = "ok" THEN "tk_keyboard" ELSE "tk_except")
    /\ UNCHANGED <<routeFrame, pc, download_type, url, message_text,
                   replies, keyboard, user_data>>

\* runbot.py:193-195  the except: the reply, and return
TkExcept ==
    /\ hpc = "tk_except"
    /\ Reply(Unresolved, "returned")
    /\ UNCHANGED <<routeFrame, pc, download_type, url, message_text, hurl,
                   keyboard, user_data, resolutions>>

\* runbot.py:197-207
TkOffer ==
    /\ hpc = "tk_keyboard"
    /\ Offer("Choose TikTok download format:", UrlButtons(hurl))
    /\ UNCHANGED <<routeFrame, pc, download_type, url, message_text, hurl,
                   user_data, resolutions>>

\* runbot.py:210-227  the url goes to user_data, not into the buttons
handle_pornhub_url ==
    /\ hpc = "handle_pornhub_url"
    /\ hurl' = strip(message_text)
    /\ user_data' = hurl'
    /\ Offer("Please select the download format:",
             <<<<"dl_ph_video">>, <<"dl_ph_audio">>>>)
    /\ UNCHANGED <<routeFrame, pc, download_type, url, message_text,
                   resolutions>>

\* runbot.py:230-272  handle_callback: a button of the keyboard is pressed;
\* query.answer() and the "Processing" edit return, and download_video is
\* entered with the kind and the url of the button, or one of the two
\* raises.  The kind pressed is the one the request is drawn for.
RbCallback ==
    /\ pc = "idle" /\ hpc = "returned"
    /\ \E b \in 1..Len(keyboard) :
         LET data == keyboard[b]
             ph == data \in {<<"dl_ph_video">>, <<"dl_ph_audio">>}
             kind == IF ph
                     THEN (IF data = <<"dl_ph_video">> THEN "VIDEO"
                           ELSE "AUDIO")
                     ELSE Upper(SplitParts(data)[2])
             target == IF ph THEN user_data ELSE SplitParts(data)[3]
         IN  /\ kind = download_type
             /\ \E o \in TransportOutcomes :
                  /\ pc' = (IF o = "ok" THEN "start" ELSE "raised")
                  /\ url' = (IF o = "ok" THEN target ELSE url)
    /\ hpc' = "pressed"
    /\ UNCHANGED <<routeFrame, download_type, message_text, hurl, replies,
                   keyboard, user_data, resolutions>>

RouteInit ==
    /\ InitData
    /\ variant = "runbot"
    /\ pc = "idle"
    /\ url = NoUrl
    /\ message_text \in Messages
    /\ hpc = "handle_message"
    /\ userRow = 0
    /\ effective_user = 0
    /\ info \in [hasDuration : {TRUE}, duration : {300, 6001}]
    /\ sizes \in [{"best"} -> {20 * MiB, 80 * MiB}]

RouteNext ==
    \/ handle_message \/ HmInvalid
    \/ handle_youtube_url
    \/ handle_instagram_url \/ IgOffer
    \/ handle_tiktok_url \/ TkResolve \/ TkExcept \/ TkOffer
    \/ handle_pornhub_url
    \/ RbCallback
    \/ RbNext

RouteSpec == RouteInit /\ [][RouteNext]_vars

-----------------------------------------------------------------------------
(* youtube_dl_bot.py: the links, the buttons and the settings of the users *)
(* of one chat.  The Application handles one update after the other.       *)

\* The bot's messages the model follows.
MaxMessages == 2

\* The chat the users write in: download_dir = f"downloads/{chat_id}".
DlChat == 1

LinkA == <<"https://", "youtu", ".", "be", "/", "idA">>
LinkB ==
    <<"https://", "www", ".", "youtube", ".", "com", "/", "watch?v=", "idB">>

\* The texts sent: a link alone, a link after words, no link.
DlTexts == {LinkA, <<"see", " ">> \o LinkB, <<"hello">>}

\* The users who send links; every user of the chat presses buttons.
LinkUsers == {1}

\* The buttons pressed.
PressedData ==
    {"dl_audio", "dl_video_high", "dl_cancel", "show_video_options",
     "show_main_options"}

\* youtube_dl_bot.py:28  YOUTUBE_REGEX: the pieces before the video id, and
\* the pieces that are 11 characters none of which is one of & = % ?
YoutubeShapes ==
    {scheme \o www \o <<host, ".", tld, "/">> \o path :
       scheme \in {<<>>, <<"https://">>},
       www \in {<<>>, <<"www", ".">>},
       host \in {"youtube", "youtu", "youtube-nocookie"},
       tld \in {"com", "be"},
       path \in {<<>>, <<"watch?v=">>, <<"embed", "/">>, <<"v", "/">>}}

VideoIds == {"idA", "idB"}

ShapeAt(text, i, shape) ==
    /\ i + Len(shape) <= Len(text)
    /\ \A j \in 1..Len(shape) : text[i + j - 1] = shape[j]
    /\ text[i + Len(shape)] \in VideoIds

\* youtube_dl_bot.py:149-155  re.search(YOUTUBE_REGEX, message_text) and
\* youtube_match.group(0): the leftmost match, NoUrl when there is none
YoutubeMatch(text) ==
    LET starts == {i \in 1..Len(text) :
                     \E sh \in YoutubeShapes : ShapeAt(text, i, sh)}
    IN  IF starts = {} THEN NoUrl
        ELSE LET i == CHOOSE k \in starts : \A l \in starts : k <= l
                 sh == CHOOSE x \in YoutubeShapes :
                         /\ ShapeAt(text, i, x)
                         /\ \A y \in YoutubeShapes :
                              ShapeAt(text, i, y) => Len(y) <= Len(x)
             IN  SubSeq(text, i, i + Len(sh))

\* The callback data of the keyboards.
VideoButtons == <<"dl_video_high", "dl_video_medium", "dl_video_low">>
MainKeyboard == <<"show_video_options", "dl_audio", "dl_cancel">>
VideoOptionsKeyboard == VideoButtons \o <<"show_main_options", "dl_cancel">>
SettingsKeyboard ==
    <<"set_default_video", "set_default_audio", "reset_preferences">>
SettingsData == {SettingsKeyboard[i] : i \in DOMAIN SettingsKeyboard}
DownloadData == {VideoButtons[i] : i \in DOMAIN VideoButtons} \cup {"dl_audio"}

\* youtube_dl_bot.py:193
\* user_preferences.get(user_id, {}).get("default_format")
default_format(u) ==
    IF u \in DOMAIN user_preferences
    THEN user_preferences[u].default_format ELSE "None"

\* youtube_dl_bot.py:195-263  the keyboard of the format selection
KeyboardFor(fmt) ==
    IF fmt = "Video" THEN VideoButtons \o <<"dl_audio", "dl_cancel">>
    ELSE IF fmt = "Audio"
    THEN <<"dl_audio">> \o VideoButtons \o <<"dl_cancel">>
    ELSE MainKeyboard

Buttons(m) == {messages[m].keyboard[i] : i \in DOMAIN messages[m].keyboard}

\* A message of the bot: the url it is about, its text and its buttons.
Message(link, text, kb) == [url |-> link, text |-> text, keyboard |-> kb]

\* edit_message_text(text, reply_markup=kb) on message m
Edited(m, text, kb) ==
    [messages EXCEPT ![m].text = text, ![m].keyboard = kb]

\* A reset that leaves the entry of the user in the dict.
DictDel_Keep(dict, key) == dict

\* dict[key] = value and del dict[key]
DictSet(dict, key, value) ==
    [k \in DOMAIN dict \cup {key} |-> IF k = key THEN value ELSE dict[k]]
DictDel(dict, key) == [k \in DOMAIN dict \ {key} |-> dict[k]]

\* Everything but the chat of youtube_dl_bot.
chatFrame == <<variant, pc, download_type, quality, info, video_title,
               sizes, rbVars, ybVars, files, events, sentSizes, fetchVars,
               err, now, swept_at, url, common_options, routeVars,
               effective_user, purge, concVars, session, stats>>

\* youtube_dl_bot.py:144-268  process_youtube_link: no match and the reply;
\* or the "Fetching" message, extract_info(download=False), the store of
\* current_download and the edit that attaches the keyboard, each of which
\* may raise into the except of line 266.
process_youtube_link(u, text) ==
    /\ Len(messages) < MaxMessages
    /\ LET link == YoutubeMatch(text)
           id == Len(messages) + 1
           current == [url |-> link, title |-> "title",
                       status_message_id |-> id]
       IN  IF link = NoUrl
           THEN UNCHANGED <<user_data_dl, messages>>
           ELSE \E o \in {"reply_raises", "extract_raises", "edit_raises",
                         "ok"} :
                  /\ messages' =
                       (IF o = "reply_raises" THEN messages
                        ELSE IF o = "ok"
                        THEN Append(messages,
                               Message(link, "select",
                                       KeyboardFor(default_format(u))))
                        ELSE Append(messages,
                               Message(link, "fetching", <<>>)))
                  /\ user_data_dl' =
                       (IF o \in {"edit_raises", "ok"}
                        THEN [user_data_dl EXCEPT ![u] = current]
                        ELSE user_data_dl)
    /\ UNCHANGED <<chatFrame, user_preferences, started, download_dirs,
                   last_setting, callback_user>>

\* youtube_dl_bot.py:76-106  settings_command: the settings keyboard
settings_command(u) ==
    /\ Len(messages) < MaxMessages
    /\ \E o \in Outcomes :
         /\ messages' =
              (IF o = "ok"
               THEN Append(messages,
                           Message(NoUrl, "settings", SettingsKeyboard))
               ELSE messages)
    /\ UNCHANGED <<chatFrame, user_data_dl, user_preferences, started,
                   download_dirs, last_setting, callback_user>>

\* youtube_dl_bot.py:109-141  handle_settings_callback, for the callbacks
\* the pattern of line 611 gives it: query.answer(), the write of
\* user_preferences, the edit of the message
handle_settings_callback(u, m, data) ==
    /\ data \in SettingsData /\ data \in Buttons(m)
    /\ callback_user' = u
    /\ \E o \in {"answer_raises", "edit_raises", "ok"} :
         /\ user_preferences' =
              (IF o = "answer_raises" THEN user_preferences
               ELSE IF data = "set_default_video"
               THEN DictSet(user_preferences, u,
                            [default_format |-> "Video"])
               ELSE IF data = "set_default_audio"
               THEN DictSet(user_preferences, u,
                            [default_format |-> "Audio"])
               ELSE DictDel(user_preferences, u))
         /\ last_setting' =
              (IF o = "answer_raises" THEN last_setting
               ELSE [last_setting EXCEPT ![u] = data])
         /\ messages' =
              (IF o = "ok" THEN Edited(m, "preference", <<>>) ELSE messages)
    /\ UNCHANGED <<chatFrame, user_data_dl, started, download_dirs>>

\* handle_callback with dl_cancel closing the session of the user.
CancelSession_Cleared(u) == [user_data_dl EXCEPT ![u] = NoSession]

\* youtube_dl_bot.py:305-307  dl_cancel: the message is edited, and
\* current_download stays
CancelSession(u) == user_data_dl

\* youtube_dl_bot.py:285-378  handle_callback, for every other callback:
\* query.answer(); the session of the user who pressed; the branches of
\* dl_cancel, show_video_options and show_main_options; and for a download
\* button the "Processing" edit, os.makedirs and the call of
\* download_audio or download_video with the url of the session.
handle_callback(u, m, data) ==
    /\ data \notin SettingsData /\ data \in Buttons(m)
    /\ callback_user' = u
    /\ \E o \in {"answer_raises", "edit_raises", "ok"} :
         LET download_info == user_data_dl[u]
             branch == IF download_info = NoSession THEN "expired"
                       ELSE IF data \in DownloadData THEN "download"
                       ELSE data
             shown ==
               IF branch = "expired" THEN Edited(m, "expired", <<>>)
               ELSE IF branch = "dl_cancel" THEN Edited(m, "cancelled", <<>>)
               ELSE IF branch = "show_video_options"
               THEN Edited(m, "quality", VideoOptionsKeyboard)
               ELSE IF branch = "show_main_options"
               THEN Edited(m, "select", MainKeyboard)
               ELSE Edited(m, "processing", <<>>)
         IN  /\ messages' = (IF o = "ok" THEN shown ELSE messages)
             /\ user_data_dl' =
                  (IF o = "ok" /\ branch = "dl_cancel"
                   THEN CancelSession(u) ELSE user_data_dl)
             /\ download_dirs' =
                  (IF o = "ok" /\ branch = "download"
                   THEN download_dirs \cup {DlChat} ELSE download_dirs)
             /\ started' =
                  (IF o = "ok" /\ branch = "download"
                   THEN Append(started,
                               [msg |-> m, url |-> download_info.url])
                   ELSE started)
    /\ UNCHANGED <<chatFrame, user_preferences, last_setting>>

\* youtube_dl_bot.py:604-620  the handlers of the Application
ChatNext ==
    \/ \E u \in LinkUsers, text \in DlTexts : process_youtube_link(u, text)
    \/ \E u \in DlUsers :
         \/ settings_command(u)
         \/ \E m \in DOMAIN messages, data \in SettingsData :
              handle_settings_callback(u, m, data)
         \/ \E m \in DOMAIN messages, data \in PressedData :
              handle_callback(u, m, data)

ChatInit ==
    /\ InitData
    /\ variant = "youtube_dl_bot"
    /\ download_type = "VIDEO" /\ quality = "high"
    /\ sizes = [t \in Qualities |-> 20 * MiB]
    /\ pc = "idle"
    /\ url = NoUrl
    /\ message_text = NoUrl
    /\ hpc = "none"
    /\ userRow = 0
    /\ effective_user = 0

ChatSpec == ChatInit /\ [][ChatNext]_vars

-----------------------------------------------------------------------------
(* runbot.py stats_command: the statistics of a user's Download rows.      *)

\* The Download rows stored before the request the model follows.
MaxRows == 2

\* A row as download_video leaves it: saved as a success, or saved with
\* the message of a rejection.
StoredRows ==
    {[exists |-> TRUE, id |-> i, success |-> ok,
      file_size |-> (IF ok THEN 20 * MiB ELSE 0),
      completed_at |-> (IF ok THEN "set" ELSE "null"),
      error_message |-> (IF ok THEN "null" ELSE RbRejectMessage),
      started_at |-> 0, download_type |-> t, owner |-> u] :
       i \in 1..MaxRows, ok \in BOOLEAN, t \in DownloadTypes,
       u \in StatsUsers}

Tables ==
    UNION {{table \in [1..n -> StoredRows] :
              \A i \in 1..n : table[i].id = i} :
           n \in 0..MaxRows}

\* Download.objects.filter(user=user, ...).count()
Count(u, wanted(_)) ==
    Cardinality({i \in DOMAIN rows : rows[i].owner = u /\ wanted(rows[i])})

\* runbot.py:105
total_downloads(u) == LET any(r) == TRUE IN Count(u, any)

\* runbot.py:106
successful_downloads(u) == LET won(r) == r.success IN Count(u, won)

\* The count of the VIDEO rows of the user, successful or not.
video_downloads_AnyOutcome(u) ==
    LET video(r) == r.download_type = "VIDEO" IN Count(u, video)

\* runbot.py:107-109
video_downloads(u) ==
    LET video(r) == r.download_type = "VIDEO" /\ r.success
    IN  Count(u, video)

\* runbot.py:110-112
audio_downloads(u) ==
    LET audio(r) == r.download_type = "AUDIO" /\ r.success
    IN  Count(u, audio)

\* runbot.py:115-117 and the f"{success_rate:.1f}" of line 128: the rate as
\* it is shown, in tenths of a percent.  With fewer than 16 rows no rate
\* lies half-way between two tenths.
success_rate(u) ==
    LET total == total_downloads(u)
        successful == successful_downloads(u)
    IN  IF total > 0
        THEN (2000 * successful + total) \div (2 * total)
        ELSE 0

\* runbot.py:98-136  stats_command, handled when the download has ended
\* (the dispatcher runs one handler at a time): get_or_create_user, the
\* four counts, the rate, and the reply.
stats_command(u) ==
    /\ variant = "runbot"
    /\ pc \in {"returned", "raised"}
    /\ \E o \in Outcomes, sent \in TransportOutcomes :
         /\ userRow' = (IF o = "ok" /\ u = Requester
                        THEN get_or_create(userRow, effective_user)
                        ELSE userRow)
         /\ stats' =
              (IF o = "ok" /\ sent = "ok"
               THEN [user |-> u,
                     total_downloads |-> total_downloads(u),
                     successful_downloads |-> successful_downloads(u),
                     video_downloads |-> video_downloads(u),
                     audio_downloads |-> audio_downloads(u),
                     success_rate |-> success_rate(u)]
               ELSE stats)
    /\ UNCHANGED <<variant, pc, download_type, quality, info, video_title,
                   sizes, download, rows, userTouches, rowWrites, user,
                   ybVars, files, events, sentSizes, fetchVars, err, now,
                   swept_at, url, common_options, routeVars, effective_user,
                   purge, concVars, session, chatVars>>

\* The requester has rows and so has another user; one more download is
\* requested.
StatsInit ==
    /\ InitState
    /\ rows \in Tables
    /\ variant = "runbot"
    /\ info \in [hasDuration : {TRUE}, duration : {300, 6001}]
    /\ sizes \in [{"best"} -> {20 * MiB}]
    /\ pc = "start"
    /\ url = UrlYoutube
    /\ message_text = NoUrl
    /\ hpc = "none"
    /\ userRow = 0
    /\ effective_user = 0

StatsNext == RbNext \/ \E u \in StatsUsers : stats_command(u)

StatsSpec == StatsInit /\ [][StatsNext]_vars

\* ---------------------------------------------------------------------
\* The option set of runbot.download_video (runbot.py:281-337).

\* The sites of a url, as the message router tells them apart.
IsInstagram(u) ==
    Sub(<<"instagram", ".", "com">>, u) \/ Sub(<<"instagr", ".", "am">>, u)

IsStory(u) == Sub(<<"/", "stories", "/">>, u)

IsYoutube(u) == Sub(<<"youtube", ".", "com">>, u)

OtherSite(u) == ~IsInstagram(u) /\ ~IsYoutube(u) /\ ~Sub(<<"tiktok">>, u)

\* The options have been built and handed to the metadata lookup.
OptionsBuilt == variant = "runbot" /\ common_options # NoOptions

Has(k) == k \in DOMAIN common_options

\* C22: for a url of no site pattern (not YouTube, TikTok or Instagram) the
\* option set holds no cookie file, no referer of a site, no user-agent
\* override and no geo-bypass flag.
C22_GenericOptionsPlain ==
    (OptionsBuilt /\ OtherSite(url)) =>
        /\ ~Has("cookiefile")
        /\ ~Has("referer")
        /\ ~Has("user-agent")
        /\ ~Has("geo_bypass")

\* C23: every Instagram url is fetched with the Instagram cookie file, the
\* credentials (username, password) are in the option set exactly for the
\* story urls, and no Instagram url that is not a story is fetched with
\* the YouTube cookie file.
C23_InstagramCookies ==
    (OptionsBuilt /\ IsInstagram(url)) =>
        /\ Has("cookiefile")
        /\ common_options.cookiefile = "/app/instagram.com_cookies.txt"
        /\ (Has("username") /\ Has("password")) <=> IsStory(url)

\* ---------------------------------------------------------------------
\* The url handlers of runbot (runbot.py:139-227, 490-521).

\* A TikTok short link: the hosts vm.tiktok.com and vt.tiktok.com, and the
\* /t/ paths.
IsShortLink(u) ==
    \/ Sub(<<"vm", ".", "tiktok", ".", "com", "/">>, u)
    \/ Sub(<<"vt", ".", "tiktok", ".", "com", "/">>, u)
    \/ Sub(<<"tiktok", ".", "com", "/", "t", "/">>, u)

\* The message is a short link the router has handed to handle_tiktok_url.
ShortLinkRouted ==
    /\ IsShortLink(message_text)
    /\ tiktok_pattern(message_text)
    /\ hpc \notin {"handle_message", "handle_tiktok_url"}

\* The resolution sub-step ran and did not give the long url.
ResolutionFailed == resolutions > 0 /\ hurl # UrlTiktok /\ hpc # "tk_resolve"

\* C24: every TikTok short link the router accepts (vm.tiktok.com,
\* vt.tiktok.com, /t/) is resolved before the format buttons are offered;
\* when the resolution fails the request ends there: the user is told the
\* url could not be resolved, no button is offered, nothing is fetched and
\* no attempt record is created.
C24_ShortLinkResolved ==
    ShortLinkRouted =>
        /\ hpc \in {"tk_keyboard", "returned", "pressed"} => resolutions > 0
        /\ ResolutionFailed =>
              /\ keyboard = <<>>
              /\ pc = "idle"
              /\ rows = <<>> /\ fetched = <<>>
              /\ hpc = "returned" => replies = <<Unresolved>>

\* An Instagram story link: a /stories/ path of instagram.com.
IsStoryUrl(text) == Sub(<<"instagram", ".", "com", "/", "stories", "/">>, text)

\* handle_instagram_url has handled the message and returned.
InstagramHandled == instagram_pattern(message_text) /\ hpc = "returned"

Told(text) == \E i \in DOMAIN replies : replies[i] = text

\* C30: for a story link handle_instagram_url sends the notice that story
\* downloads may require authentication and still offers the format
\* buttons; for an Instagram link that is not a story it sends no notice
\* and offers the format buttons.
C30_StoryNotice ==
    InstagramHandled =>
        /\ keyboard = UrlButtons(strip(message_text))
        /\ Told(StoryNotice) <=> IsStoryUrl(message_text)

\* ---------------------------------------------------------------------
\* What leaves the handlers.

\* The download step is past its first collaborator call: the user is
\* loaded (runbot), the callback query is answered (youtube_dl_bot).
StepsStarted ==
    \/ variant = "runbot" /\ common_options # NoOptions
    \/ variant = "youtube_dl_bot" /\ pc \notin {"start", "raised"}
    \/ variant = "youtube_dl_bot" /\ pc = "raised" /\ events # <<>>

\* C25: no exception leaves runbot.download_video or
\* youtube_dl_bot.handle_callback: whichever step fails (metadata lookup,
\* record creation, duration check of a missing duration, fetch, send,
\* edit of the status message, save of the record), the handler reports
\* the failure and returns.
C25_NothingEscapes ==
    (variant \in {"runbot", "youtube_dl_bot"} /\ StepsStarted)
        => pc # "raised"

\* ---------------------------------------------------------------------
\* The ladders of youtube_dl_bot (youtube_dl_bot.py:380-595).

DlVideoRequest == variant = "youtube_dl_bot" /\ download_type = "VIDEO"
DlAudioRequest == variant = "youtube_dl_bot" /\ download_type = "AUDIO"

\* C26: a video request never fetches audio by itself; when the lowest
\* video tier is oversize it offers the audio download as a button and
\* ends, and audio is fetched only by the request the button starts.
C26_NoImplicitAudio ==
    DlVideoRequest =>
        /\ \A i \in DOMAIN tried : tried[i] \in Qualities
        /\ pc \in {"dv_offer_audio", "dv_remove_oversize"} =>
              tried[Len(tried)] = "low" /\ sizes["low"] > DL_SIZE_LIMIT

C26_Witness ==
    /\ DlVideoRequest /\ pc = "returned"
    /\ tried # <<>> /\ tried[Len(tried)] = "low"
    /\ sizes["low"] > DL_SIZE_LIMIT
    /\ events # <<>> /\ events[Len(events)].shown
    /\ sentSizes = <<>>

\* An audio request has returned without a collaborator raising.
AudioReturned == DlAudioRequest /\ pc = "returned" /\ err = NoErr

\* C27: the audio ladder is 192 kbps, then 96 kbps.  The first fetch is at
\* 192; the artifact is deleted and one fetch at 96 follows only if it is
\* over 50 MiB; if the artifact at 96 is missing or over 50 MiB too, the
\* request fails, nothing is sent and the file is removed; otherwise the
\* artifact that fits is sent.
C27_AudioLadder ==
    DlAudioRequest =>
        /\ tried \in {<<>>, <<"192">>, <<"192", "96">>}
        /\ Len(tried) = 2 =>
              fetched[1] = "file" /\ sizes["192"] > DL_SIZE_LIMIT
        /\ (AudioReturned /\ Len(fetched) = 2
             /\ (fetched[2] = "nofile" \/ sizes["96"] > DL_SIZE_LIMIT)) =>
              /\ sentSizes = <<>> /\ files = <<>>
              /\ Results(events) = <<"failed">>
        /\ (AudioReturned /\ Len(fetched) = 2
             /\ fetched[2] = "file" /\ sizes["96"] <= DL_SIZE_LIMIT) =>
              sentSizes = <<sizes["96"]>> /\ files = <<>>
        /\ (AudioReturned /\ fetched = <<"file">>) =>
              /\ sizes["192"] <= DL_SIZE_LIMIT
              /\ sentSizes = <<sizes["192"]>> /\ files = <<>>

C27_Witness ==
    /\ AudioReturned /\ tried = <<"192", "96">>
    /\ sizes["192"] > DL_SIZE_LIMIT /\ sizes["96"] <= DL_SIZE_LIMIT
    /\ sentSizes = <<sizes["96"]>>

\* The positions of handle_callback, download_video and download_audio in
\* the order of the code; the recursive call of download_video starts
\* over at the first of its positions, one round later.
DlPosition ==
    [start |-> 1, dl_processing |-> 2,
     dv_edit_downloading |-> 3, dv_fetch |-> 4, dv_edit_uploading |-> 5,
     dv_size |-> 6, dv_edit_oversize |-> 7, dv_retry |-> 8,
     dv_edit_lowest |-> 9, dv_offer_audio |-> 10, dv_remove_oversize |-> 11,
     dv_send |-> 12, dv_cleanup |-> 13, dv_edit_done |-> 14,
     da_edit_downloading |-> 3, da_fetch |-> 4, da_edit_uploading |-> 5,
     da_exists |-> 6, da_size |-> 7, da_edit_oversize |-> 8, da_retry |-> 9,
     da_recheck |-> 10, da_edit_sorry |-> 11, da_remove_sorry |-> 12,
     da_send |-> 13, da_cleanup |-> 14, da_edit_done |-> 15,
     dl_except |-> 16, returned |-> 17, raised |-> 17]

\* More than any position.
PositionsPerRound == Cardinality(DOMAIN DlPosition)

\* The fetches done, counting the one the run is about to do; the except
\* of handle_callback and its end come after every round.
DlRound ==
    IF pc \in {"dl_except", "returned", "raised"}
    THEN Len(Ladder) + 1
    ELSE IF pc \in {"start", "dl_processing", "dv_edit_downloading",
                    "dv_fetch", "da_edit_downloading", "da_fetch"}
    THEN Len(tried) + 1 ELSE Len(tried)

DlProgress == DlRound * PositionsPerRound + DlPosition[pc]

NoTierTwice == \A i, j \in DOMAIN tried : tried[i] = tried[j] => i = j

\* C28: a request of youtube_dl_bot ends and never comes back to a state
\* it was in: every step moves it forward, it fetches at most as often as
\* its ladder has tiers (3 for video, 2 for audio) and no tier twice, and
\* it goes on until the handler has returned or raised.
C28_Terminates ==
    [][variant = "youtube_dl_bot" =>
         /\ DlProgress' > DlProgress
         /\ Len(tried') <= Cardinality(TiersOf(variant, download_type))
         /\ NoTierTwice'
         /\ Ended' \/ (ENABLED Next)']_vars

C28_Witness ==
    /\ variant = "youtube_dl_bot" /\ pc = "returned"
    /\ Len(tried) = 2 /\ sizes[tried[2]] > DL_SIZE_LIMIT

\* ---------------------------------------------------------------------
\* The working directory of the process.

AllDone == \A r \in Requests : req[r].pc = "done"

\* C29: after the runs of the download step, whatever their interleaving,
\* the working directory of the process is the one it was before they
\* started: no run leaves the process in the temporary directory of
\* another run or in a removed directory.
C29_CwdRestored ==
    AllDone => cwd = StartDir /\ dirs[cwd].exists

\* ---------------------------------------------------------------------
\* The User row of a request (runbot.py:46-58).

\* get_or_create_user has returned the user of this request.
UserLoaded == variant = "runbot" /\ pc = "rb_options"

\* C31: get_or_create_user creates or updates the user: when it has run
\* for a user whose username, first name, last name or language code
\* changed since the row was created, the stored row carries the new
\* values.
C31_UserUpdated ==
    UserLoaded => userRow = effective_user

\* ---------------------------------------------------------------------
\* The purge of old activities (bot/tasks.py:102-118).

\* The step is a run of the purge.
Purged == purge'.at # purge.at

\* C32: purge_old_raw_data deletes the completed activities older than
\* the cutoff and nothing else: after it has run, every activity that is
\* still in progress and every activity started within the last `days`
\* days is still there, and every completed activity older than the cutoff
\* is gone.
C32_PurgeOnlyOldCompleted ==
    [][Purged =>
         \A i \in DOMAIN activities :
           Present(i) =>
             LET a == activities[i]
                 old == a.started_at < now - PurgeDays * HoursPerDay
             IN  /\ (~a.completed \/ ~old) => i \notin purge'.deleted
                 /\ (a.completed /\ old) => i \in purge'.deleted]_vars

C32_Witness ==
    /\ purge.deleted # {}
    /\ \A i \in purge.deleted : activities[i].completed

\* ---------------------------------------------------------------------
\* The chat of youtube_dl_bot (youtube_dl_bot.py:76-378).

\* C33: a download button of youtube_dl_bot fetches the url of the message
\* it belongs to: every download that was started from a button was
\* started with the url of the message the button is on, also when the
\* user has sent another link since.
C33_ButtonFetchesItsUrl ==
    \A i \in DOMAIN started :
      started[i].url = messages[started[i].msg].url

\* The step is a callback handled on the format selection message m.
Pressed(m) ==
    /\ m \in DOMAIN messages
    /\ messages[m].text # "settings"
    /\ messages'[m] # messages[m]

\* The step starts no download, sends no file, creates no directory and
\* writes neither a session nor a preference.
Quiet ==
    /\ started' = started
    /\ files' = files /\ events' = events
    /\ download_dirs' = download_dirs /\ dirs' = dirs
    /\ user_data_dl' = user_data_dl
    /\ user_preferences' = user_preferences

\* The step answers dl_cancel, show_video_options or show_main_options.
Navigated(m) ==
    \/ messages'[m].text = "cancelled"
    \/ messages'[m].text = "quality"
    \/ messages[m].text = "quality" /\ messages'[m].text = "select"

\* C34: handle_callback on dl_cancel, show_video_options and
\* show_main_options starts no fetch, sends no file, creates no download
\* directory and leaves current_download and user_preferences as they
\* are; and a callback of a user who has no current_download session
\* reports "Download session expired" and does nothing else.
C34_NavigationIsQuiet ==
    [][\A m \in DOMAIN messages :
         Pressed(m) =>
           /\ Navigated(m) => Quiet
           /\ user_data_dl[callback_user'] = NoSession =>
                messages'[m].text = "expired" /\ Quiet]_vars

C34_Witness ==
    /\ \E m \in DOMAIN messages : messages[m].text = "expired"
    /\ \E m \in DOMAIN messages : messages[m].text = "cancelled"
    /\ started = <<>> /\ download_dirs = {}
    /\ \E u \in DlUsers : user_data_dl[u] # NoSession

\* The entry of user u in user_preferences, "None" when there is none.
Entry(prefs, u) ==
    IF u \in DOMAIN prefs THEN prefs[u].default_format ELSE "None"

\* C35: a user's default_format is the value of the set_default_* callback
\* of that user handled last, when no reset of that user followed it; a
\* user whose last settings callback was reset_preferences, or who sent
\* none, has no entry in user_preferences; and a callback of one user
\* never changes the entry of another user.
C35_PreferencesPerUser ==
    /\ [](\A u \in DlUsers :
            Entry(user_preferences, u) =
              (IF last_setting[u] = "set_default_video" THEN "Video"
               ELSE IF last_setting[u] = "set_default_audio" THEN "Audio"
               ELSE "None"))
    /\ [][\A u \in DlUsers :
            Entry(user_preferences', u) # Entry(user_preferences, u) =>
              callback_user' = u]_vars

C35_Witness ==
    /\ last_setting[1] = "reset_preferences"
    /\ last_setting[2] = "set_default_audio"
    /\ 1 \notin DOMAIN user_preferences
    /\ Entry(user_preferences, 2) = "Audio"
    /\ callback_user = 1

\* ---------------------------------------------------------------------
\* The routing of runbot.handle_message (runbot.py:490-521).

\* The handler a position of the message handling belongs to; "none" is
\* the reply of the else branch.
HandlerOf(p) ==
    IF p \in {"handle_instagram_url", "ig_keyboard"} THEN "instagram"
    ELSE IF p = "handle_youtube_url" THEN "youtube"
    ELSE IF p = "handle_pornhub_url" THEN "pornhub"
    ELSE IF p \in {"handle_tiktok_url", "tk_resolve", "tk_except",
                   "tk_keyboard"} THEN "tiktok"
    ELSE IF p = "invalid" THEN "none"
    ELSE "outside"

\* The first site, in the order Instagram, YouTube, PornHub, TikTok, a
\* pattern of which is found in the text.
FirstSite(text) ==
    IF instagram_pattern(text) THEN "instagram"
    ELSE IF youtube_pattern(text) THEN "youtube"
    ELSE IF pornhub_pattern(text) THEN "pornhub"
    ELSE IF tiktok_pattern(text) THEN "tiktok"
    ELSE "none"

SitesFound(text) ==
    {s \in {"instagram", "youtube", "pornhub", "tiktok"} :
       \/ s = "instagram" /\ instagram_pattern(text)
       \/ s = "youtube" /\ youtube_pattern(text)
       \/ s = "pornhub" /\ pornhub_pattern(text)
       \/ s = "tiktok" /\ tiktok_pattern(text)}

\* C36: handle_message hands the message to exactly one handler, the one
\* of the first site found in the order Instagram, YouTube, PornHub,
\* TikTok, also when the text holds links of several sites; a text with
\* no link gets the "send a valid link" reply, no buttons and no fetch.
C36_RoutedByPriority ==
    /\ [](HandlerOf(hpc) # "outside" =>
            HandlerOf(hpc) = FirstSite(message_text))
    /\ [](FirstSite(message_text) = "none" =>
            /\ keyboard = <<>> /\ pc = "idle" /\ url = NoUrl
            /\ hpc = "returned" => replies = <<ValidLinkPlease>>)
    /\ [][/\ (hpc = "handle_message" /\ hpc' # hpc) =>
               HandlerOf(hpc') = FirstSite(message_text)
          /\ HandlerOf(hpc) # "outside" =>
               HandlerOf(hpc') \in {HandlerOf(hpc), "outside"}]_vars

C36_Witness ==
    /\ Cardinality(SitesFound(message_text)) > 1
    /\ youtube_pattern(message_text)
    /\ hpc = "returned"
    /\ keyboard = UrlButtons(strip(message_text))
    /\ replies = <<"Please select the download format:">>

\* ---------------------------------------------------------------------
\* The callback data of the buttons (runbot.py:139-154, 230-252;
\* youtube_bot.py:91-97).

PhData == {<<"dl_ph_video">>, <<"dl_ph_audio">>}

\* C37: the callback data "dl_<kind>_<url>" round-trips: split on "_" at
\* most twice, the data of the Video button gives VIDEO, the data of the
\* Audio button gives AUDIO, and both give exactly the url the link
\* handler put into the button, also when the url holds underscores; and
\* the download entered from a button has that url.
C37_CallbackRoundTrip ==
    /\ \A b \in DOMAIN keyboard :
         keyboard[b] \notin PhData =>
           LET parts == SplitParts(keyboard[b])
               yb == download_callback_parts(keyboard[b])
           IN  /\ Len(parts) = 3 /\ yb = parts
               /\ parts[1] = <<"dl">>
               /\ Upper(parts[2]) = (IF b = 1 THEN "VIDEO" ELSE "AUDIO")
               /\ parts[3] = hurl
    /\ (hpc = "pressed" /\ pc # "raised" /\ user_data = NoUrl) =>
         url = hurl /\ url # NoUrl

C37_Witness ==
    /\ hpc = "pressed" /\ pc = "start"
    /\ Sub(<<"_">>, url)
    /\ url = strip(message_text)
    /\ download_type = "AUDIO"

\* ---------------------------------------------------------------------
\* The statistics of runbot (runbot.py:98-136).

\* C38: the statistics stats_command shows are consistent: the video and
\* the audio downloads add up to the successful downloads, the successful
\* downloads are at most the total, and the success rate is 0 for a user
\* without downloads and lies between 0 and 100 percent otherwise.
C38_StatsConsistent ==
    stats # NoStats =>
      /\ stats.video_downloads + stats.audio_downloads
           = stats.successful_downloads
      /\ stats.successful_downloads <= stats.total_downloads
      /\ stats.total_downloads = 0 => stats.success_rate = 0
      /\ stats.success_rate >= 0 /\ stats.success_rate <= 1000

C38_Witness ==
    /\ stats # NoStats
    /\ stats.user = Requester
    /\ stats.total_downloads = MaxRows + 1
    /\ stats.video_downloads > 0 /\ stats.audio_downloads > 0
    /\ stats.successful_downloads < stats.total_downloads
    /\ stats.success_rate > 0 /\ stats.success_rate < 1000

\* ---------------------------------------------------------------------
\* The analytics API of youtube_bot (youtube_bot.py:33-52, 112-123,
\* 214-222).

\* The step is a call of start-download/ or of complete-download/.
ApiStep ==
    /\ variant = "youtube_bot"
    /\ pc \in {"yb_start_api", "yb_complete_api"}
    /\ pc' # pc

\* C39: a failure of the analytics API neither blocks nor fails a
\* delivery: whether start-download/ and complete-download/ answer or
\* cannot be reached, the call returns, the handler goes on to the fetch
\* (after start-download/) or ends (after complete-download/), and the
\* call changes nothing of what the user is sent or told.
C39_ApiNeverBlocks ==
    /\ [][ApiStep =>
            /\ pc' = (IF pc = "yb_start_api" THEN "yb_fetch" ELSE "returned")
            /\ events' = events /\ sentSizes' = sentSizes
            /\ files' = files /\ locals' = locals /\ err' = err]_vars
    /\ []((variant = "youtube_bot"
            /\ pc \in {"yb_start_api", "yb_complete_api"}) =>
              ENABLED (YbStartApi \/ YbCompleteApi))

\* The file was delivered although start-download/ could not be reached.
C39_Witness ==
    /\ variant = "youtube_bot" /\ pc = "returned"
    /\ activity_id = 0 /\ activities = <<>>
    /\ sentSizes # <<>>
    /\ Len(events) > 0 /\ events[Len(events)].result = "delivered"

====
